---- MODULE Spec2Model ----
(***************************************************************************)
(* Model of the detection and thresholding engine of spcal / nanopart.     *)
(*                                                                         *)
(* Arrays are sequences; Python index i (0-based) is position i + 1.       *)
(* Regions are pairs <<start, end>> of 0-based indices, end exclusive.     *)
(***************************************************************************)
EXTENDS Integers, Sequences, FiniteSets, TLC

\* ------------------------------------------------------------------ bounds

\* Longest signal handed to the detection functions.
MaxLen == 3

\* Sample values of a signal, and the values a limit takes at a sample: every
\* feasible ordering of a sample, its accumulation limit and its detection
\* limit occurs (equal, below, above, and the two limits misordered).
SampleValues == 0..2
AccumulationValues == 0..1
DetectionValues == {0, 2}

\* Longest channel signal whose detections are combined.
MaxCombineLen == 4

\* Longest signal handed to the threshold estimators.
MaxResponses == 3

\* Largest max_iters passed to the threshold estimators.
MaxIters == 4

\* Most samples of one kind in a signal handed to fromBest: at or below 5
\* (MaxLow, per kind) and above 5 (MaxHigh).
MaxLow == 3
MaxHigh == 20

\* Real numbers are fixed-point integers: the real x is the integer x * Scale.
Scale == 100

\* the largest number of events handed to cluster_information
MaxEvents == 3

\* the largest number of samples of TofData the integration thread loops over
MaxSamples == 2

\* the largest number of entries of the integ index, and of accept() calls
MaxFiles == 2
MaxImports == 2

VARIABLES
    \* spcal.detection / nanopart.util: arguments of the call
    y, limit_accumulation, limit_detection, integrate,
    \* which function was called, and how the call ended
    call, outcome,
    \* what the call returned
    sums, labels, regions,
    \* spcal.limit: the classmethod the caller invoked
    entry,
    \* spcal.limit: the method argument of fromMethodString
    method_string,
    \* spcal.limit: the alpha entries of poisson_kws, gaussian_kws, compound_kws
    \* and the formula entry of poisson_kws
    kws,
    \* spcal.limit: the two candidate limits of fromHighest
    poisson,
    gaussian,
    \* spcal.limit: arguments of fromGaussian / fromPoisson / fromCompoundPoisson
    responses, method, single_ion_dist, alpha, window_size, max_iters,
    \* spcal.limit: locals of the refinement loop
    pc, threshold, prev_threshold, mu, iters,
    \* the threshold each finished pass produced, oldest first
    history,
    \* whether logger.warning was called, and the SPCalLimit returned
    warned, result,
    \* spcal.detection.combine_detections: arguments, dicts by channel name
    sums_dict, labels_dict, regions_dict,
    \* how the call ended, and what it returned
    combine_outcome, combined, any_label, all_regions,
    \* spcal.result: the arguments SPCalResult is constructed with
    args,
    \* the SPCalResult object: its detections, indicies, background and inputs
    res,
    \* the last SPCalResult operation, the key convertTo was called with, and
    \* how the operation ended
    op, key, returned,
    \* nanopart.gui.results.ResultsWidget: masses and background_lod_mass
    widget,
    \* spcal.cluster.cluster_information: X and T
    X, T,
    \* what cluster_information returned: means, stds and counts, and the idx
    \* they were ordered by
    cluster_outcome, means, stds, counts, order_idx,
    \* spcal.cluster.prepare_data_for_clustering: the keys of data in order, data, and the array returned
    data_names, data, prepare_outcome, prepared,
    \* spcal.calc moving_mean, moving_median and moving_std: x and n, the function called, r, and the sorted window and position of moving_median's loop
    moving_x, moving_n, moving_call, moving_r, sort, start,
    \* TofwerkImportDialog: the samples of TofData, whether accept() must integrate, the position of the integration thread in run(), its interruption flag, the signals queued for the dialog, the progress bar, the controls, the dialog and the number of dataImported emissions
    tof_samples, tof_integrate, thread_pc, thread_i, interruption, tof_events, tof_progress, tof_maximum, tof_controls, tof_dialog, tof_emitted,
    \* NuImportDialog: the entries of the integ index, the aborted and running flags, the controls, the progress bar, the results list, the workers in the thread pool, the signals queued for the dialog, the number of accept() calls, the imports abort() has run for, the dialog, the message box being shown and the dataImported emissions
    nu_index, nu_aborted, nu_running, nu_controls, nu_progress, nu_maximum, nu_results, nu_pool, nu_events, nu_import, nu_cancelled, nu_dialog, nu_message, nu_emitted

detVars == <<y, limit_accumulation, limit_detection, integrate,
             call, outcome, sums, labels, regions>>

limVars == <<entry, method_string, kws, poisson, gaussian, responses, method, single_ion_dist, alpha, window_size, max_iters,
             pc, threshold, prev_threshold, mu, iters, history, warned, result>>

combVars == <<sums_dict, labels_dict, regions_dict,
              combine_outcome, combined, any_label, all_regions>>

resVars == <<args, res, op, key, returned, widget>>

clusterVars == <<X, T, cluster_outcome, means, stds, counts, order_idx>>

prepareVars == <<data_names, data, prepare_outcome, prepared>>

movingVars == <<moving_x, moving_n, moving_call, moving_r, sort, start>>

tofVars == <<tof_samples, tof_integrate, thread_pc, thread_i, interruption, tof_events, tof_progress, tof_maximum, tof_controls, tof_dialog, tof_emitted>>

nuVars == <<nu_index, nu_aborted, nu_running, nu_controls, nu_progress, nu_maximum, nu_results, nu_pool, nu_events, nu_import, nu_cancelled, nu_dialog, nu_message, nu_emitted>>

vars == <<detVars, limVars, combVars, resVars, clusterVars, prepareVars, movingVars, tofVars, nuVars>>

\* the variables a call into one part of the engine leaves alone
exceptDetection == <<limVars, combVars, resVars, clusterVars, prepareVars, movingVars, tofVars, nuVars>>
exceptLimit == <<detVars, combVars, resVars, clusterVars, prepareVars, movingVars, tofVars, nuVars>>
exceptCombine == <<detVars, limVars, resVars, clusterVars, prepareVars, movingVars, tofVars, nuVars>>
exceptResult == <<detVars, limVars, combVars, clusterVars, prepareVars, movingVars, tofVars, nuVars>>
exceptCluster == <<detVars, limVars, combVars, resVars, prepareVars, movingVars, tofVars, nuVars>>
exceptPrepare == <<detVars, limVars, combVars, resVars, clusterVars, movingVars, tofVars, nuVars>>
exceptMoving == <<detVars, limVars, combVars, resVars, clusterVars, prepareVars, tofVars, nuVars>>
exceptTof == <<detVars, limVars, combVars, resVars, clusterVars, prepareVars, movingVars, nuVars>>
exceptNu == <<detVars, limVars, combVars, resVars, clusterVars, prepareVars, movingVars, tofVars>>

\* ------------------------------------------------------------- numpy helpers

RECURSIVE SumSeq(_)
SumSeq(s) == IF s = <<>> THEN 0 ELSE Head(s) + SumSeq(Tail(s))

RECURSIVE OrSeq(_)
OrSeq(s) == IF s = <<>> THEN FALSE ELSE Head(s) \/ OrSeq(Tail(s))

\* a[lo:hi] for 0-based lo, hi (hi exclusive), clipped like a Python slice
Slice(a, lo, hi) ==
    LET h == IF hi > Len(a) THEN Len(a) ELSE hi
    IN  IF lo >= h THEN <<>> ELSE SubSeq(a, lo + 1, h)

\* A limit is a scalar or a per-sample array: float | np.ndarray.
ScalarLimit(v) == [kind |-> "scalar", s |-> v, a |-> <<>>]
ArrayLimit(arr) == [kind |-> "array", s |-> 0, a |-> arr]

\* the value of a limit that is broadcast against sample i (0-based)
LimitAt(limit, i) == IF limit.kind = "scalar" THEN limit.s ELSE limit.a[i + 1]

\* the indices over which two limits are compared after broadcasting:
\* two scalars compare once, otherwise once per sample
CompareIndices(la, ld, n) ==
    IF la.kind = "scalar" /\ ld.kind = "scalar" THEN {0} ELSE 0..(n - 1)

\* np.flatnonzero(mask): ascending 0-based indices where mask holds
RECURSIVE FlatNonzeroFrom(_, _)
FlatNonzeroFrom(mask, i) ==
    IF i >= Len(mask) THEN <<>>
    ELSE (IF mask[i + 1] THEN <<i>> ELSE <<>>) \o FlatNonzeroFrom(mask, i + 1)

FlatNonzero(mask) == FlatNonzeroFrom(mask, 0)

\* ufunc.reduceat(a, idx): element k reduces a[idx[k]:idx[k+1]], or is
\* a[idx[k]] when idx[k] >= idx[k+1]; the last reduces a[idx[-1]:].
AddReduceAt(a, idx) ==
    [k \in 1..Len(idx) |->
        IF k < Len(idx) /\ idx[k] >= idx[k + 1] THEN a[idx[k] + 1]
        ELSE SumSeq(Slice(a, idx[k], IF k < Len(idx) THEN idx[k + 1] ELSE Len(a)))]

OrReduceAt(a, idx) ==
    [k \in 1..Len(idx) |->
        IF k < Len(idx) /\ idx[k] >= idx[k + 1] THEN a[idx[k] + 1]
        ELSE OrSeq(Slice(a, idx[k], IF k < Len(idx) THEN idx[k + 1] ELSE Len(a)))]

\* a[::2]
EveryOther(a) == [k \in 1..((Len(a) + 1) \div 2) |-> a[2 * k - 1]]

\* regions.ravel(): start0, end0, start1, end1, ...
Ravel(rs) ==
    [k \in 1..(2 * Len(rs)) |-> rs[(k + 1) \div 2][IF k % 2 = 1 THEN 1 ELSE 2]]

\* regions[mask]: boolean-mask row selection
RECURSIVE MaskRows(_, _)
MaskRows(rs, mask) ==
    IF rs = <<>> THEN <<>>
    ELSE (IF Head(mask) THEN <<Head(rs)>> ELSE <<>>)
         \o MaskRows(Tail(rs), Tail(mask))

\* np.cumsum
RECURSIVE CumSumFrom(_, _)
CumSumFrom(a, acc) ==
    IF a = <<>> THEN <<>>
    ELSE <<acc + Head(a)>> \o CumSumFrom(Tail(a), acc + Head(a))

CumSum(a) == CumSumFrom(a, 0)

\* a[idx] = vals: fancy-index assignment, a later duplicate index wins
RECURSIVE AssignAt(_, _, _)
AssignAt(a, idx, vals) ==
    IF idx = <<>> THEN a
    ELSE AssignAt([a EXCEPT ![Head(idx) + 1] = Head(vals)], Tail(idx), Tail(vals))

\* -------------------------------------------------------- spcal.detection

\* the mask x > limit
Above(x, limit) == [i \in 1..Len(x) |-> x[i] > LimitAt(limit, i - 1)]

\* np.diff(mask.astype(int8), prepend=0)
MaskDiff(mask) ==
    [i \in 1..Len(mask) |->
        (IF mask[i] THEN 1 ELSE 0) - (IF i > 1 /\ mask[i - 1] THEN 1 ELSE 0)]

\* get_contiguous_regions closing an open final run at the last index
\* instead of at the size
get_contiguous_regions_short_end(x, limit) ==
    LET diff == MaskDiff(Above(x, limit))
        starts == FlatNonzero([i \in 1..Len(diff) |-> diff[i] = 1])
        ends0 == FlatNonzero([i \in 1..Len(diff) |-> diff[i] = -1])
        ends == IF Len(starts) # Len(ends0) THEN ends0 \o <<Len(diff) - 1>> ELSE ends0
    IN  [k \in 1..Len(starts) |-> <<starts[k], ends[k]>>]

get_contiguous_regions(x, limit) ==
    LET diff == MaskDiff(Above(x, limit))
        starts == FlatNonzero([i \in 1..Len(diff) |-> diff[i] = 1])
        ends0 == FlatNonzero([i \in 1..Len(diff) |-> diff[i] = -1])
        ends == IF Len(starts) # Len(ends0) THEN ends0 \o <<Len(diff)>> ELSE ends0
    IN  [k \in 1..Len(starts) |-> <<starts[k], ends[k]>>]

\* label_regions dropping the ends one sample too early
label_regions_early_end(rs, size) ==
    LET zeros == [i \in 1..size |-> 0]
    IN  IF rs = <<>> THEN zeros
        ELSE LET ix == [k \in 1..Len(rs) |-> k]
                 starts == [k \in 1..Len(rs) |-> rs[k][1]]
                 ends == SelectSeq([k \in 1..Len(rs) |-> rs[k][2]],
                                   LAMBDA e : e < size - 1)
                 marked == AssignAt(AssignAt(zeros, starts, ix), ends,
                                    [k \in 1..Len(ends) |-> -ix[k]])
             IN  CumSum(marked)

label_regions(rs, size) ==
    LET zeros == [i \in 1..size |-> 0]
    IN  IF rs = <<>> THEN zeros
        ELSE LET ix == [k \in 1..Len(rs) |-> k]
                 starts == [k \in 1..Len(rs) |-> rs[k][1]]
                 ends == SelectSeq([k \in 1..Len(rs) |-> rs[k][2]],
                                   LAMBDA e : e < size)
                 marked == AssignAt(AssignAt(zeros, starts, ix), ends,
                                    [k \in 1..Len(ends) |-> -ix[k]])
             IN  CumSum(marked)

\* the ordering check written with np.all
LimitsMisordered_all(la, ld, n) ==
    \A i \in CompareIndices(la, ld, n) : LimitAt(la, i) > LimitAt(ld, i)

\* np.any(limit_accumulation > limit_detection)
LimitsMisordered(la, ld, n) ==
    \E i \in CompareIndices(la, ld, n) : LimitAt(la, i) > LimitAt(ld, i)

\* the indices handed to reduceat: the ravelled regions without a final
\* end that equals the signal size
ReduceIndices(rs, size) ==
    LET ind == Ravel(rs)
    IN  IF Len(ind) > 0 /\ ind[Len(ind)] = size
        THEN SubSeq(ind, 1, Len(ind) - 1) ELSE ind

\* the detection test written with >= instead of >
DetectedRegions_at_limit(x, la, ld) ==
    LET found == get_contiguous_regions(x, la)
        mask == [i \in 1..Len(x) |-> x[i] >= LimitAt(ld, i - 1)]
        detections == EveryOther(OrReduceAt(mask, ReduceIndices(found, Len(x))))
    IN  MaskRows(found, detections)

\* the regions that hold a value above the detection limit
DetectedRegions(x, la, ld) ==
    LET found == get_contiguous_regions(x, la)
        detections == EveryOther(OrReduceAt(Above(x, ld),
                                            ReduceIndices(found, Len(x))))
    IN  MaskRows(found, detections)

\* the sums taken over the regions found before the detection filter
RegionSums_unfiltered(x, la, rs, integ) ==
    LET ind == ReduceIndices(get_contiguous_regions(x, la), Len(x))
        src == IF integ THEN [i \in 1..Len(x) |-> x[i] - LimitAt(la, i - 1)]
               ELSE x
    IN  SubSeq(EveryOther(AddReduceAt(src, ind)), 1, Len(rs))

RegionSums(x, la, rs, integ) ==
    LET ind == ReduceIndices(rs, Len(x))
        src == IF integ THEN [i \in 1..Len(x) |-> x[i] - LimitAt(la, i - 1)]
               ELSE x
    IN  EveryOther(AddReduceAt(src, ind))

\* reduceat and fancy indexing raise IndexError for an index past the array
IndexPastEnd(idx, size) == \E k \in 1..Len(idx) : idx[k] >= size

NoResult == [outcome |-> "none", sums |-> <<>>, labels |-> <<>>, regions |-> <<>>]

accumulate_detections(x, la, ld, integ) ==
    IF LimitsMisordered(la, ld, Len(x))
    THEN [NoResult EXCEPT !.outcome = "ValueError"]
    ELSE LET found == get_contiguous_regions(x, la)
         IN  IF IndexPastEnd(ReduceIndices(found, Len(x)), Len(x))
             THEN [NoResult EXCEPT !.outcome = "IndexError"]
             ELSE LET kept == DetectedRegions(x, la, ld)
                  IN  [outcome |-> "returned",
                       sums |-> RegionSums(x, la, kept, integ),
                       labels |-> label_regions(kept, Len(x)),
                       regions |-> kept]

\* ------------------------------------------------- combine_detections

\* the mask marking only the samples labelled in every channel
AnyLabel_every_channel(labs, size) ==
    [i \in 1..size |-> IF \A name \in DOMAIN labs : labs[name][i] > 0 THEN 1 ELSE 0]

\* any_label[labels[name] > 0] = 1, for every name
AnyLabel(labs, size) ==
    [i \in 1..size |-> IF \E name \in DOMAIN labs : labs[name][i] > 0 THEN 1 ELSE 0]

\* the containment test written with a strict start
Contained_strict_start(region, whole) ==
    region[1] > whole[1] /\ region[2] <= whole[2]

\* (regions[name][:, 0] >= all_regions[:, 0, None])
\*     & (regions[name][:, 1] <= all_regions[:, 1, None]), for one pair
Contained(region, whole) ==
    region[1] >= whole[1] /\ region[2] <= whole[2]

\* np.sum(np.where(idx, sums[name], 0), axis=1)
CombinedSums(name_sums, name_regions, whole_regions) ==
    [j \in 1..Len(whole_regions) |->
        SumSeq([k \in 1..Len(name_regions) |->
                    IF Contained(name_regions[k], whole_regions[j])
                    THEN name_sums[k] ELSE 0])]

NoCombination == [outcome |-> "none", combined |-> <<>>, any_label |-> <<>>,
                  all_regions |-> <<>>]

\* combine_detections(sums, labels, regions); the dicts are functions of the
\* channel names, names[0] is any of them as all label arrays have one size
combine_detections(sums_d, labels_d, regions_d) ==
    IF ~(DOMAIN sums_d \subseteq DOMAIN regions_d)
    THEN [NoCombination EXCEPT !.outcome = "ValueError"]
    ELSE IF DOMAIN sums_d = {}
    THEN [NoCombination EXCEPT !.outcome = "IndexError"]
    ELSE IF ~(DOMAIN sums_d \subseteq DOMAIN labels_d)
    THEN [NoCombination EXCEPT !.outcome = "KeyError"]
    ELSE LET names == DOMAIN sums_d
             size == Len(labels_d[CHOOSE name \in names : TRUE])
             mask == AnyLabel([name \in names |-> labels_d[name]], size)
             whole == get_contiguous_regions(mask, ScalarLimit(0))
         IN  [outcome |-> "returned",
              combined |-> [name \in names |->
                    CombinedSums(sums_d[name], regions_d[name], whole)],
              any_label |-> label_regions(whole, size),
              all_regions |-> whole]

\* ---------------------------------------------------------- spcal.calc

\* a / b of two numbers, kept exact as the pair of a and b
Ratio(a, b) == <<a, b>>

\* np.sqrt of an exact ratio, kept as the ratio that is under the root
SqrtOf(q) == q

\* r[n:] - r[:-n] written with r[n - 1:] - r[: -n + 1] for the subtracted part
WindowSums_shifted(tab, n) ==
    [k \in 1..(Len(tab) - n + 1) |->
        IF k = 1 THEN tab[n] ELSE tab[k + n - 1] - tab[k]]

\* tab[n - 1] followed by tab[n:] - tab[:-n]: the sums of every window of n
\* out of the running sums
WindowSums(tab, n) ==
    [k \in 1..(Len(tab) - n + 1) |->
        IF k = 1 THEN tab[n] ELSE tab[k + n - 1] - tab[k - 1]]

\* calc.moving_mean(x, n) without bottleneck
moving_mean(x, n) ==
    LET window_sums == WindowSums(CumSum(x), n)
    IN  [k \in 1..Len(window_sums) |-> Ratio(window_sums[k], n)]

\* calc.moving_std(x, n) without bottleneck: sqrt(sqrs - sums * sums), sums and
\* sqrs being the window sums of x and of x * x, over n
moving_std(x, n) ==
    LET window_sums == WindowSums(CumSum(x), n)
        window_sqrs == WindowSums(CumSum([i \in 1..Len(x) |-> x[i] * x[i]]), n)
    IN  [k \in 1..Len(window_sums) |->
            SqrtOf(Ratio(n * window_sqrs[k] - window_sums[k] * window_sums[k], n * n))]

\* bisect.bisect_left(a, v): the number of values of the sorted a below v
bisect_left(a, v) == Len(SelectSeq(a, LAMBDA w : w < v))

\* bisect.insort(a, v): v inserted after the values of a that are not above it
insort(a, v) ==
    LET at == Len(SelectSeq(a, LAMBDA w : w <= v))
    IN  SubSeq(a, 1, at) \o <<v>> \o SubSeq(a, at + 1, Len(a))

\* del a[i] for a 0-based i
DeleteAt(a, i) == SubSeq(a, 1, i) \o SubSeq(a, i + 2, Len(a))

\* sorted(a)
RECURSIVE sorted(_)
sorted(a) == IF a = <<>> THEN <<>> ELSE insort(sorted(Tail(a)), Head(a))

\* sort[m] + sort[m2] with m = n // 2 and m2 = m + n % 2 - 1
MiddleSum(window, n) ==
    LET m == n \div 2
        m2 == m + (n % 2) - 1
    IN  window[m + 1] + window[m2 + 1]

\* -------------------------------------------------------- spcal.result

\* the keys of inputs_kws, and the keys of the detections dict
InputKeys ==
    {"dwelltime", "efficiency", "uptake", "response", "mass_fraction",
     "mass_response", "density", "cell_diameter", "molar_mass", "time"}

DetectionKeys == {"signal", "mass", "size", "cell_concentration"}

\* a key that is not in a dict, and a key whose value is None
Absent == -2
NoneInput == -1

\* x in self.inputs, for every x of keys
HasAll(inputs, keys) == \A x \in keys : inputs[x] # Absent

EfficiencyKeys == {"dwelltime", "efficiency", "uptake", "response", "mass_fraction"}
MassResponseKeys == {"mass_response", "mass_fraction"}
ConcentrationKeys == {"efficiency", "uptake", "time"}
CellKeys == {"cell_diameter", "molar_mass"}

\* floor of the cube root of x, lo * lo * lo <= x < hi * hi * hi
RECURSIVE ICbrtBetween(_, _, _)
ICbrtBetween(x, lo, hi) ==
    IF hi - lo <= 1 THEN lo
    ELSE LET mid == (lo + hi) \div 2
         IN  IF mid * mid * mid <= x THEN ICbrtBetween(x, mid, hi)
             ELSE ICbrtBetween(x, lo, mid)

\* the cube root of a 32 bit number is below 1291
ICbrt(x) == ICbrtBetween(x, 0, 1291)

\* particle.particle_mass: signal * dwell * flow_rate * efficiency
\* / (response_factor * mass_fraction)
particle_mass(signal, dwell, efficiency, flow_rate, response_factor, mass_fraction) ==
    (((((signal * dwell) \div Scale) * flow_rate) \div Scale) * efficiency)
        \div ((response_factor * mass_fraction) \div Scale)

\* particle.particle_size: cbrt(6 / (pi * density) * mass), pi as 355 / 113
particle_size(mass, density) ==
    ICbrt(((678 * mass * Scale) \div (355 * density)) * Scale * Scale)

\* particle.cell_concentration: mass / (volume of a sphere of the diameter)
\* / molar_mass
cell_concentration(mass, diameter, molar_mass) ==
    ((((((((678 * mass * Scale) \div (355 * diameter)) * Scale) \div diameter)
        * Scale) \div diameter)) * Scale) \div molar_mass

\* particle.particle_number_concentration: count / (efficiency * flow_rate * time)
particle_number_concentration(count, efficiency, flow_rate, time) ==
    (((((count * Scale) \div efficiency) * Scale) \div flow_rate) * Scale)
        \div time

\* particle.particle_total_concentration: sum(masses) / (efficiency * flow_rate * time)
particle_total_concentration(masses, efficiency, flow_rate, time) ==
    (((((SumSeq(masses) * Scale) \div efficiency) * Scale) \div flow_rate) * Scale)
        \div time

\* np.around
Around(x) == ((x + Scale \div 2) \div Scale) * Scale

\* what an operation returns: None or a float, or what it raises
ReturnNone == [outcome |-> "returned", kind |-> "None", f |-> 0, a |-> <<>>]
ReturnFloat(x) == [outcome |-> "returned", kind |-> "float", f |-> x, a |-> <<>>]
Raise(error) == [outcome |-> error, kind |-> "None", f |-> 0, a |-> <<>>]
NotCalled == [outcome |-> "none", kind |-> "None", f |-> 0, a |-> <<>>]

\* no SPCalResult object
NoObject ==
    [exists |-> FALSE, keys |-> {}, detections |-> [k \in DetectionKeys |-> <<>>],
     indicies |-> <<>>, background |-> 0, inputs |-> [k \in InputKeys |-> Absent]]

\* {k: v for k, v in inputs_kws.items() if v is not None}
FilterNone(inputs_kws) ==
    [k \in InputKeys |-> IF inputs_kws[k] = NoneInput THEN Absent ELSE inputs_kws[k]]

\* np.nanmean(responses[labels == 0]) for responses without NaN, 0 standing
\* for the mean of no sample
BackgroundMean(resp, labs) ==
    LET outside == SelectSeq([i \in 1..Len(resp) |-> IF labs[i] = 0 THEN resp[i] ELSE -1],
                             LAMBDA v : v >= 0)
    IN  IF outside = <<>> THEN 0 ELSE SumSeq(outside) \div Len(outside)

\* SPCalResult.__init__
NewResult(a) ==
    [exists |-> TRUE,
     keys |-> {"signal"},
     detections |-> [k \in DetectionKeys |-> IF k = "signal" THEN a.detections ELSE <<>>],
     indicies |-> FlatNonzero([i \in 1..Len(a.detections) |-> a.detections[i] # 0]),
     background |-> BackgroundMean(a.responses, a.labels),
     inputs |-> FilterNone(a.inputs_kws)]

\* the mass-response conversion written with mass_response * mass_fraction
MassByResponse_times_fraction(value, inputs) ==
    (value * Scale * Scale) \div (inputs["mass_response"] * inputs["mass_fraction"])

\* value * self.inputs["mass_response"] / self.inputs["mass_fraction"]
MassByResponse(value, inputs) ==
    (value * inputs["mass_response"]) \div inputs["mass_fraction"]

MassByEfficiency(value, inputs) ==
    particle_mass(value, inputs["dwelltime"], inputs["efficiency"], inputs["uptake"],
                  inputs["response"], inputs["mass_fraction"])

\* asMass with the efficiency inputs also required for the mass response
asMass_efficiency_only(r, value) ==
    IF HasAll(r.inputs, EfficiencyKeys)
    THEN ReturnFloat(MassByEfficiency(value, r.inputs))
    ELSE IF HasAll(r.inputs, MassResponseKeys \cup {"response"})
    THEN ReturnFloat(MassByResponse(value, r.inputs))
    ELSE ReturnNone

\* SPCalResult.asMass
asMass(r, value) ==
    IF HasAll(r.inputs, EfficiencyKeys)
    THEN ReturnFloat(MassByEfficiency(value, r.inputs))
    ELSE IF HasAll(r.inputs, MassResponseKeys)
    THEN ReturnFloat(MassByResponse(value, r.inputs))
    ELSE ReturnNone

\* SPCalResult.asSize
asSize(r, value) ==
    LET mass == asMass(r, value)
    IN  IF mass.kind # "None" /\ r.inputs["density"] # Absent
        THEN ReturnFloat(particle_size(mass.f, r.inputs["density"]))
        ELSE ReturnNone

\* SPCalResult.asCellConcentration
asCellConcentration(r, value) ==
    LET mass == asMass(r, value)
    IN  IF mass.kind # "None" /\ HasAll(r.inputs, CellKeys)
        THEN ReturnFloat(cell_concentration(mass.f, r.inputs["cell_diameter"],
                                            r.inputs["molar_mass"]))
        ELSE ReturnNone

\* SPCalResult.convertTo
convertTo(r, value, k) ==
    CASE k = "signal" -> ReturnFloat(value)
      [] k = "mass" -> asMass(r, value)
      [] k = "size" -> asSize(r, value)
      [] k = "cell_concentration" -> asCellConcentration(r, value)
      [] OTHER -> Raise("KeyError")

\* SPCalResult.ionic_background
ionic_background(r) ==
    IF r.inputs["response"] = Absent THEN ReturnNone
    ELSE ReturnFloat((r.background * Scale) \div r.inputs["response"])

\* SPCalResult.mass_concentration
mass_concentration(r) ==
    IF "mass" \notin r.keys \/ ~HasAll(r.inputs, ConcentrationKeys) THEN ReturnNone
    ELSE ReturnFloat(particle_total_concentration(r.detections["mass"],
            r.inputs["efficiency"], r.inputs["uptake"], r.inputs["time"]))

\* SPCalResult.number_concentration
number_concentration(r) ==
    IF ~HasAll(r.inputs, ConcentrationKeys) THEN ReturnNone
    ELSE ReturnFloat(Around(particle_number_concentration(Len(r.indicies) * Scale,
            r.inputs["efficiency"], r.inputs["uptake"], r.inputs["time"])))

\* the size and cell_concentration entries both calibrations add once the
\* mass entry is set
WithSizeAndCell(r, masses) ==
    LET withMass == [r EXCEPT !.keys = @ \cup {"mass"}, !.detections["mass"] = masses]
        withSize ==
            IF r.inputs["density"] = Absent THEN withMass
            ELSE [withMass EXCEPT !.keys = @ \cup {"size"},
                    !.detections["size"] =
                        [i \in 1..Len(masses) |-> particle_size(masses[i], r.inputs["density"])]]
    IN  IF ~HasAll(r.inputs, CellKeys) THEN withSize
        ELSE [withSize EXCEPT !.keys = @ \cup {"cell_concentration"},
                !.detections["cell_concentration"] =
                    [i \in 1..Len(masses) |->
                        cell_concentration(masses[i], r.inputs["cell_diameter"],
                                           r.inputs["molar_mass"])]]

\* SPCalResult.fromNebulisationEfficiency: the object afterwards and the outcome
fromNebulisationEfficiency(r) ==
    IF ~HasAll(r.inputs, EfficiencyKeys)
    THEN [object |-> r, returned |-> Raise("ValueError")]
    ELSE LET signal == r.detections["signal"]
             masses == [i \in 1..Len(signal) |-> MassByEfficiency(signal[i], r.inputs)]
         IN  [object |-> WithSizeAndCell(r, masses), returned |-> ReturnNone]

\* signal * (mass_response / mass_fraction)
MassByResponseFactor(value, inputs) ==
    (value * ((inputs["mass_response"] * Scale) \div inputs["mass_fraction"])) \div Scale

\* fromMassResponse setting the mass entry before it checks the inputs
fromMassResponse_mass_first(r) ==
    IF ~HasAll(r.inputs, MassResponseKeys)
    THEN [object |-> [r EXCEPT !.keys = @ \cup {"mass"}], returned |-> Raise("ValueError")]
    ELSE LET signal == r.detections["signal"]
             masses == [i \in 1..Len(signal) |-> MassByResponseFactor(signal[i], r.inputs)]
         IN  [object |-> WithSizeAndCell(r, masses), returned |-> ReturnNone]

\* SPCalResult.fromMassResponse: the object afterwards and the outcome
fromMassResponse(r) ==
    IF ~HasAll(r.inputs, MassResponseKeys)
    THEN [object |-> r, returned |-> Raise("ValueError")]
    ELSE LET signal == r.detections["signal"]
             masses == [i \in 1..Len(signal) |-> MassByResponseFactor(signal[i], r.inputs)]
         IN  [object |-> WithSizeAndCell(r, masses), returned |-> ReturnNone]

\* ------------------------------------------- nanopart.gui.results

NoWidget == [updated |-> FALSE, masses |-> <<>>, background_lod_mass |-> 0]

\* ResultsWidget.updateResultsMassResponse: masses and background_lod_mass
updateResultsMassResponse(sample_detections, lod, massresponse, molarratio) ==
    [updated |-> TRUE,
     masses |-> [i \in 1..Len(sample_detections) |->
                    (sample_detections[i] * ((massresponse * Scale) \div molarratio))
                        \div Scale],
     background_lod_mass |-> (lod * Scale * Scale) \div (massresponse * molarratio)]

\* ---------------------------------------------------------- nanopart.util

\* np.any(limit_detection < limit_accumulation)
LegacyLimitsMisordered(la, ld, n) ==
    \E i \in CompareIndices(la, ld, n) : LimitAt(ld, i) < LimitAt(la, i)

LegacyRegions(x, la) ==
    LET diff == MaskDiff(Above(x, la))
        starts == FlatNonzero([i \in 1..Len(diff) |-> diff[i] = 1])
        ends0 == FlatNonzero([i \in 1..Len(diff) |-> diff[i] = -1])
        ends == IF Len(starts) # Len(ends0) THEN ends0 \o <<Len(diff) - 1>> ELSE ends0
    IN  [added |-> Len(starts) # Len(ends0),
         regions |-> [k \in 1..Len(starts) |-> <<starts[k], ends[k]>>]]

LegacyLabels(rs, size, end_point_added) ==
    LET zeros == [i \in 1..size |-> 0]
        ix == [k \in 1..Len(rs) |-> k]
        starts == [k \in 1..Len(rs) |-> rs[k][1]]
        ends == [k \in 1..Len(rs) |-> rs[k][2]]
        m == IF end_point_added /\ Len(rs) > 0 THEN Len(rs) - 1 ELSE Len(rs)
        marked == AssignAt(AssignAt(zeros, starts, ix),
                           SubSeq(ends, 1, m), [k \in 1..m |-> -ix[k]])
    IN  CumSum(marked)

legacy_accumulate_detections(x, la, ld) ==
    IF LegacyLimitsMisordered(la, ld, Len(x))
    THEN [NoResult EXCEPT !.outcome = "ValueError"]
    ELSE LET found == LegacyRegions(x, la)
             detections == EveryOther(OrReduceAt(Above(x, ld), Ravel(found.regions)))
             kept == MaskRows(found.regions, detections)
         IN  [outcome |-> "returned",
              sums |-> EveryOther(AddReduceAt(x, Ravel(kept))),
              labels |-> LegacyLabels(kept, Len(x), found.added),
              regions |-> kept]

\* ------------------------------------------------- spcal.gui.dialogs

\* QProgressBar.setValue: a value outside minimum..maximum is ignored
SetValue(value, v, maximum) == IF v < 0 \/ v > maximum THEN value ELSE v

\* self.thread is not None and self.thread.isRunning(): from start() until
\* run() has returned
isRunning(position) == position \in {"run", "for", "integrate", "scale"}

\* the signals a Worker emits when its function has returned: result and
\* finished, or exception and finished when the function raised
WorkerSignals(index, w) ==
    IF index[w[2]] = "read"
    THEN << [kind |-> "result", import |-> w[1], entry |-> w[2]],
            [kind |-> "finished", import |-> w[1], entry |-> w[2]] >>
    ELSE << [kind |-> "exception", import |-> w[1], entry |-> w[2]],
            [kind |-> "finished", import |-> w[1], entry |-> w[2]] >>

\* the signals of a set of workers that have run, in the order of the workers
RECURSIVE SignalsOf(_, _)
SignalsOf(index, ws) ==
    IF ws = {} THEN <<>>
    ELSE LET w == CHOOSE v \in ws : \A u \in ws : v[1] < u[1] \/ (v[1] = u[1] /\ v[2] <= u[2])
         IN  WorkerSignals(index, w) \o SignalsOf(index, ws \ {w})

\* the entries of the index whose integ file does not exist
MissingEntries(index) == {k \in 1..Len(index) : index[k] = "missing"}

\* ------------------------------------------------------------ spcal.limit

\* floats: a finite fixed-point value, +inf or NaN
Fin(v) == <<0, v>>
PosInf == <<1, 0>>
NaN == <<2, 0>>

IsNaN(a) == a[1] = 2
IsFinite(a) == a[1] = 0

\* a < b and a <= b on floats: every comparison with NaN is false
Lt(a, b) ==
    IF IsNaN(a) \/ IsNaN(b) THEN FALSE
    ELSE IF a = PosInf THEN FALSE
    ELSE IF b = PosInf THEN TRUE
    ELSE a[2] < b[2]

Le(a, b) ==
    IF IsNaN(a) \/ IsNaN(b) THEN FALSE
    ELSE IF b = PosInf THEN TRUE
    ELSE IF a = PosInf THEN FALSE
    ELSE a[2] <= b[2]

\* floor of the square root
RECURSIVE ISqrtIn(_, _, _)
ISqrtIn(x, lo, hi) ==
    IF lo >= hi THEN lo
    ELSE LET mid == (lo + hi + 1) \div 2
         IN  IF mid * mid <= x THEN ISqrtIn(x, mid, hi) ELSE ISqrtIn(x, lo, mid - 1)

RECURSIVE SqrtUpper(_, _)
SqrtUpper(x, r) == IF r * r > x THEN r ELSE SqrtUpper(x, 2 * r)

ISqrt(x) == ISqrtIn(x, 0, SqrtUpper(x, 1))

\* the finite values of an array of floats
Finite(a) == SelectSeq(a, IsFinite)

RECURSIVE SumValues(_)
SumValues(a) == IF a = <<>> THEN 0 ELSE Head(a)[2] + SumValues(Tail(a))

RECURSIVE SumSquares(_)
SumSquares(a) == IF a = <<>> THEN 0 ELSE Head(a)[2] * Head(a)[2] + SumSquares(Tail(a))

\* bn.nanmean: the mean of the values that are not NaN, NaN when there is none
NanMean(a) ==
    LET f == Finite(a)
    IN  IF f = <<>> THEN NaN ELSE Fin(SumValues(f) \div Len(f))

\* bn.nanstd: the population standard deviation of the values that are not NaN
NanStd(a) ==
    LET f == Finite(a)
        n == Len(f)
    IN  IF f = <<>> THEN NaN
        ELSE Fin(ISqrt(n * SumSquares(f) - SumValues(f) * SumValues(f)) \div n)

\* responses < threshold
BelowThreshold(resp, thr) ==
    [i \in 1..Len(resp) |-> Lt(Fin(resp[i]), LimitAt(thr, i - 1))]

\* responses[responses < threshold]
Background(resp, thr) ==
    LET mask == BelowThreshold(resp, thr)
        idx == FlatNonzero(mask)
    IN  [k \in 1..Len(idx) |-> Fin(resp[idx[k] + 1])]

\* np.where(responses < threshold, responses, np.nan)
MaskedBackground(resp, thr) ==
    LET mask == BelowThreshold(resp, thr)
    IN  [i \in 1..Len(resp) |-> IF mask[i] THEN Fin(resp[i]) ELSE NaN]

\* the source index mode="reflect" reads for index i of an array of n
RECURSIVE Reflect(_, _)
Reflect(i, n) ==
    IF n = 1 THEN 0
    ELSE IF i < 0 THEN Reflect(-i, n)
    ELSE IF i >= n THEN Reflect(2 * (n - 1) - i, n)
    ELSE i

\* np.pad(a, [halfwin, halfwin], mode="reflect")
Pad(a, halfwin) ==
    [j \in 1..(Len(a) + 2 * halfwin) |-> a[Reflect(j - 1 - halfwin, Len(a)) + 1]]

\* the moving mean sliced with [halfwin : -halfwin]: windows that end at
\* their sample
MoveMean_trailing(pad, w, halfwin) ==
    [k \in 1..(Len(pad) - 2 * halfwin) |->
        NanMean(SubSeq(pad, IF k + halfwin - w + 1 < 1 THEN 1 ELSE k + halfwin - w + 1,
                       k + halfwin))]

\* bn.move_mean(pad, w, min_count=1)[2 * halfwin :]
MoveMean(pad, w, halfwin) ==
    [k \in 1..(Len(pad) - 2 * halfwin) |->
        NanMean(SubSeq(pad, k + 2 * halfwin - w + 1, k + 2 * halfwin))]

\* bn.move_std(pad, w, min_count=1)[2 * halfwin :]
MoveStd(pad, w, halfwin) ==
    [k \in 1..(Len(pad) - 2 * halfwin) |->
        NanStd(SubSeq(pad, k + 2 * halfwin - w + 1, k + 2 * halfwin))]

\* type I error rates, by name
Alphas == {"0.5", "0.16", "1e-6"}

\* the default of poisson_kws.get("alpha", 0.001)
PoissonDefaultAlpha == "0.001"

\* Python strings are sequences of characters.
UpperCase ==
    <<"A", "B", "C", "D", "E", "F", "G", "H", "I", "J", "K", "L", "M",
      "N", "O", "P", "Q", "R", "S", "T", "U", "V", "W", "X", "Y", "Z">>

LowerCase ==
    <<"a", "b", "c", "d", "e", "f", "g", "h", "i", "j", "k", "l", "m",
      "n", "o", "p", "q", "r", "s", "t", "u", "v", "w", "x", "y", "z">>

\* str.lower()
lower(str) ==
    [i \in 1..Len(str) |->
        IF \E k \in 1..Len(UpperCase) : UpperCase[k] = str[i]
        THEN LowerCase[CHOOSE k \in 1..Len(UpperCase) : UpperCase[k] = str[i]]
        ELSE str[i]]

\* str.startswith(prefix)
startswith(str, prefix) ==
    Len(str) >= Len(prefix) /\ SubSeq(str, 1, Len(prefix)) = prefix

\* no method string: the estimator was not called through fromMethodString
None == <<"None">>

Automatic == <<"a", "u", "t", "o", "m", "a", "t", "i", "c">>
Best == <<"b", "e", "s", "t">>
Highest == <<"h", "i", "g", "h", "e", "s", "t">>
Compound == <<"c", "o", "m", "p", "o", "u", "n", "d">>
Gaussian == <<"g", "a", "u", "s", "s", "i", "a", "n">>
Poisson == <<"p", "o", "i", "s", "s", "o", "n">>
Currie == <<"c", "u", "r", "r", "i", "e">>
FormulaA == <<"f", "o", "r", "m", "u", "l", "a", " ", "a">>
FormulaC == <<"f", "o", "r", "m", "u", "l", "a", " ", "c">>
Stapleton == <<"s", "t", "a", "p", "l", "e", "t", "o", "n">>

\* fromMethodString: the constructor a method string is handed to
MethodChoice(str) ==
    LET m == lower(str)
    IN  IF m \in {Automatic, Best} THEN "fromBest"
        ELSE IF m = Highest THEN "fromHighest"
        ELSE IF startswith(m, Compound) THEN "CompoundPoisson"
        ELSE IF startswith(m, Gaussian) THEN "Gaussian"
        ELSE IF startswith(m, Poisson) THEN "Poisson"
        ELSE "ValueError"

\* fromPoisson: the formula string selects one of the poisson_fn
KnownFormula(str) ==
    LET f == lower(str)
    IN  f = Currie \/ f = FormulaA \/ f = FormulaC \/ startswith(f, Stapleton)

\* the alphas and the formula taken from empty poisson_kws, gaussian_kws and
\* compound_kws
DefaultKws ==
    [poisson |-> PoissonDefaultAlpha, gaussian |-> "1e-6", compound |-> "1e-6",
     formula |-> FormulaC]

\* NormalDist().inv_cdf(1.0 - alpha), in fixed point
InvCdf(a) ==
    CASE a = "0.5" -> 0
      [] a = "0.16" -> (994 * Scale) \div 1000
      [] a = "1e-6" -> (4753 * Scale) \div 1000
      [] a = "0.001" -> (3090 * Scale) \div 1000

\* -log(1 - alpha), in fixed point: exp(-lam) > 1 - alpha iff lam is below it
NegLogOneMinus(a) ==
    CASE a = "0.5" -> (6931 * Scale) \div 10000
      [] a = "0.16" -> (1744 * Scale) \div 10000
      [] a = "1e-6" -> (1 * Scale) \div 1000000
      [] a = "0.001" -> (1 * Scale) \div 1000

\* mu + std * z on floats
PlusScaled(m, sd, z) ==
    IF ~IsFinite(m) \/ ~IsFinite(sd) THEN NaN
    ELSE Fin(m[2] + (sd[2] * z) \div Scale)

\* one pass of fromGaussian: the mean and the threshold it computes
GaussianPass(resp, thr, w, a) ==
    IF w = 0
    THEN LET m == NanMean(Background(resp, thr))
             sd == NanStd(Background(resp, thr))
         IN  [mu |-> ScalarLimit(m),
              threshold |-> ScalarLimit(PlusScaled(m, sd, InvCdf(a)))]
    ELSE LET halfwin == w \div 2
             pad == Pad(MaskedBackground(resp, thr), halfwin)
             m == MoveMean(pad, w, halfwin)
             sd == MoveStd(pad, w, halfwin)
         IN  [mu |-> ArrayLimit(m),
              threshold |-> ArrayLimit(
                [i \in 1..Len(m) |-> PlusScaled(m[i], sd[i], InvCdf(a))])]

\* the critical value sc of a Poisson formula for mean m
PoissonCritical(m, a) ==
    IF ~IsFinite(m) THEN NaN
    ELSE LET ub == IF m[2] < 5 * Scale THEN m[2] + Scale \div 2 ELSE m[2]
         IN  Fin((ISqrt(2 * ub * Scale) * InvCdf(a)) \div Scale)

\* np.ceil(mu + sc)
CeilSum(m, sc) ==
    IF ~IsFinite(m) \/ ~IsFinite(sc) THEN NaN
    ELSE Fin(((m[2] + sc[2] + Scale - 1) \div Scale) * Scale)

\* one pass of fromPoisson
PoissonPass(resp, thr, w, a) ==
    IF w = 0
    THEN LET m == NanMean(Background(resp, thr))
         IN  [mu |-> ScalarLimit(m),
              threshold |-> ScalarLimit(CeilSum(m, PoissonCritical(m, a)))]
    ELSE LET halfwin == w \div 2
             pad == Pad(MaskedBackground(resp, thr), halfwin)
             m == MoveMean(pad, w, halfwin)
         IN  [mu |-> ArrayLimit(m),
              threshold |-> ArrayLimit(
                [i \in 1..Len(m) |-> CeilSum(m[i], PoissonCritical(m[i], a))])]

\* how far above the mean a quantile of the compound distribution lies
QuantileMargins == {0, Scale}

\* np.quantile(sim, q0) and compound_poisson_lognormal_quantile: the values
\* the quantile of the compound distribution with finite mean lam can take
CompoundQuantiles(lam) == {Fin(lam[2] + d) : d \in QuantileMargins}

\* q0 = ((1.0 - alpha) - p0) / (1.0 - p0) < 0.0, with p0 = np.exp(-lam)
QuantileBelowZero(lam, a) == IsFinite(lam) /\ lam[2] < NegLogOneMinus(a)

\* one pass of fromCompoundPoisson: the set of results it can have; the
\* quantile of a distribution with a NaN mean raises
CompoundPasses(resp, thr, sis, a) ==
    LET lam == NanMean(Background(resp, thr))
    IN  IF IsNaN(lam)
        THEN {[raised |-> TRUE, mu |-> ScalarLimit(lam),
               threshold |-> ScalarLimit(NaN)]}
        ELSE IF sis = "given" /\ QuantileBelowZero(lam, a)
        THEN {[raised |-> FALSE, mu |-> ScalarLimit(lam),
               threshold |-> ScalarLimit(Fin(0))]}
        ELSE {[raised |-> FALSE, mu |-> ScalarLimit(lam),
               threshold |-> ScalarLimit(q)] : q \in CompoundQuantiles(lam)}

\* the loop test written with >=
AllLower_or_equal(prev, thr, n) ==
    \A i \in CompareIndices(prev, thr, n) : Le(LimitAt(thr, i), LimitAt(prev, i))

\* np.all(prev_threshold > threshold)
AllLower(prev, thr, n) ==
    \A i \in CompareIndices(prev, thr, n) : Lt(LimitAt(thr, i), LimitAt(prev, i))

\* the while condition written with iters <= max_iters
LoopContinues_one_more(prev, thr, n, it, maxit) ==
    (AllLower(prev, thr, n) /\ it <= maxit) \/ it = 0

\* the while condition of the refinement loop
LoopContinues(prev, thr, n, it, maxit) ==
    (AllLower(prev, thr, n) /\ it < maxit) \/ it = 0

\* iters == max_iters and max_iters != 1
ReachedMaxIters(it, maxit) == it = maxit /\ maxit # 1

\* SPCalLimit.accumulationLimit(method)
accumulationLimit(lim, how) ==
    LET m == lim.mean_signal
        t == lim.detection_threshold
        half(a, b) == IF ~IsFinite(a) \/ ~IsFinite(b)
                      THEN (IF IsNaN(a) \/ IsNaN(b) THEN NaN ELSE PosInf)
                      ELSE Fin((a[2] + b[2]) \div 2)
    IN  CASE how = "detection threshold" -> t
          [] how = "half detection threshold" ->
                IF t.kind = "scalar" THEN ScalarLimit(half(m.s, t.s))
                ELSE ArrayLimit([i \in 1..Len(t.a) |-> half(m.a[i], t.a[i])])
          [] how = "signal mean" -> m

NoLimit == [name |-> "none"]

\* spcal.calc.is_integer_or_near(x, max_diff): x lies within max_diff of an
\* integer
is_integer_or_near(x, max_diff) ==
    LET r == x % Scale
    IN  r <= max_diff \/ Scale - r <= max_diff

\* count_nonzero(is_integer_or_near(low_responses, 0.05)) / low_responses.size > 0.75
NearIntegerShare(near, low) == 100 * near > 75 * low

\* low_responses.size / np.count_nonzero(nonzero_response) < 0.05
FewLow(low, positive) == 100 * low < 5 * positive

\* the estimator fromBest hands the signal to; the share of low samples
\* divides by the number of positive samples
BestChoice(resp) ==
    LET positive == Len(SelectSeq(resp, LAMBDA v : v > 0))
        low_responses == SelectSeq(resp, LAMBDA v : v > 0 /\ v <= 5 * Scale)
        near == Len(SelectSeq(low_responses,
                    LAMBDA v : is_integer_or_near(v, (5 * Scale) \div 100)))
    IN  IF positive = 0 THEN "ZeroDivisionError"
        ELSE IF FewLow(Len(low_responses), positive) THEN "Gaussian"
        ELSE IF NearIntegerShare(near, Len(low_responses)) THEN "Poisson"
        ELSE "CompoundPoisson"

\* np.mean of a float or of an array of n floats, times n: the two means
\* fromHighest compares are over the same n, and their totals compare exactly
Mean(lim, n) ==
    IF lim.kind = "scalar"
    THEN (IF IsFinite(lim.s) THEN Fin(lim.s[2] * n) ELSE lim.s)
    ELSE IF \E i \in 1..Len(lim.a) : IsNaN(lim.a[i]) THEN NaN
    ELSE IF lim.a = <<>> THEN NaN
    ELSE Fin(SumValues(lim.a))

\* fromHighest written with >=
HighestChoice_or_equal(p, g, n) ==
    IF Le(Mean(p.detection_threshold, n), Mean(g.detection_threshold, n))
    THEN g ELSE p

\* np.mean(gaussian.detection_threshold) > np.mean(poisson.detection_threshold)
HighestChoice(p, g, n) ==
    IF Lt(Mean(p.detection_threshold, n), Mean(g.detection_threshold, n))
    THEN g ELSE p

\* the passes the estimator named m can make from threshold thr
EstimatorPasses(m, resp, thr, w, sis, a) ==
    CASE m = "Gaussian" ->
            {[raised |-> FALSE] @@ GaussianPass(resp, thr, w, a)}
      [] m = "Poisson" ->
            {[raised |-> FALSE] @@ PoissonPass(resp, thr, w, a)}
      [] m = "CompoundPoisson" -> CompoundPasses(resp, thr, sis, a)

\* the params dict written with "iters": iters
LimitParams_passes(m, a, w, it) ==
    IF m = "CompoundPoisson" THEN [alpha |-> a, iters |-> it]
    ELSE [alpha |-> a, window |-> w, iters |-> it]

\* the params dict of the returned SPCalLimit
LimitParams(m, a, w, it) ==
    IF m = "CompoundPoisson" THEN [alpha |-> a, iters |-> it - 1]
    ELSE [alpha |-> a, window |-> w, iters |-> it - 1]

\* ------------------------------------------------------- spcal.cluster

\* the rows of the array divided by the largest value of the row
divide_rows_by_max(stacked) ==
    [i \in 1..Len(stacked) |->
        LET largest == CHOOSE v \in {stacked[i][j] : j \in 1..Len(stacked[i])} :
                            \A j \in 1..Len(stacked[i]) : stacked[i][j] <= v
        IN  [j \in 1..Len(stacked[i]) |->
                IF largest > 0 THEN (stacked[i][j] * Scale) \div largest
                ELSE stacked[i][j]]]

\* totals = np.sum(X, axis=1); np.divide(X.T, totals, where=totals > 0.0,
\* out=X.T): the rows with a total above 0 divided by it, the others left
divide_rows(stacked) ==
    [i \in 1..Len(stacked) |->
        LET total == SumSeq(stacked[i])
        IN  [j \in 1..Len(stacked[i]) |->
                IF total > 0 THEN (stacked[i][j] * Scale) \div total
                ELSE stacked[i][j]]]

\* prepare_data_for_clustering(data), names being list(data.keys())
prepare_data_for_clustering(names, d) ==
    LET stacked == [i \in 1..Len(d[names[1]]) |->
                        [j \in 1..Len(names) |-> d[names[j]][i]]]
    IN  divide_rows(stacked)

\* max(T)
RECURSIVE SeqMax(_)
SeqMax(t) ==
    IF Len(t) = 1 THEN Head(t)
    ELSE IF Head(t) >= SeqMax(Tail(t)) THEN Head(t) ELSE SeqMax(Tail(t))

\* np.bincount(T): how often every index from 0 to max(T) occurs
bincount(t) ==
    LET size == IF t = <<>> THEN 0 ELSE SeqMax(t) + 1
    IN  [c \in 1..size |-> Len(SelectSeq(t, LAMBDA v : v = c - 1))]

\* np.bincount(T, weights=w): the sum of the weights of every index
bincount_weights(t, w) ==
    LET size == IF t = <<>> THEN 0 ELSE SeqMax(t) + 1
    IN  [c \in 1..size |->
            SumSeq([i \in 1..Len(t) |-> IF t[i] = c - 1 THEN w[i] ELSE 0])]

\* sx / counts, 0.0 / 0 being nan
DivideByCount(sx, n) == IF n = 0 THEN NaN ELSE Fin(sx \div n)

\* np.sqrt(sx2 / counts - means ** 2)
StdOf(sx2, n, mean) ==
    IF n = 0 THEN NaN
    ELSE Fin(ISqrt((sx2 \div n - (mean[2] * mean[2]) \div Scale) * Scale))

\* np.argsort(counts): the orders that sort counts ascending; the default
\* kind is not a stable sort, the order of equal counts is the build's
ArgsortResults(c) ==
    {order \in [1..Len(c) -> 0..(Len(c) - 1)] :
        /\ \A i, j \in 1..Len(c) : i # j => order[i] # order[j]
        /\ \A i \in 1..(Len(c) - 1) : c[order[i] + 1] <= c[order[i + 1] + 1]}

\* a[::-1]
Reversed(a) == [i \in 1..Len(a) |-> a[Len(a) + 1 - i]]

\* a[idx]
Take(a, order) == [i \in 1..Len(order) |-> a[order[i] + 1]]

\* counts, means and stds of every cluster index, before they are ordered
cluster_summary(x, t, features) ==
    LET c == bincount(t)
        sx == [f \in 1..features |->
                bincount_weights(t, [i \in 1..Len(x) |-> x[i][f]])]
        sx2 == [f \in 1..features |->
                bincount_weights(t, [i \in 1..Len(x) |-> (x[i][f] * x[i][f]) \div Scale])]
        m == [k \in 1..Len(c) |-> [f \in 1..features |-> DivideByCount(sx[f][k], c[k])]]
    IN  [counts |-> c,
         means |-> m,
         stds |-> [k \in 1..Len(c) |-> [f \in 1..features |->
                    StdOf(sx2[f][k], c[k], m[k][f])]]]

\* cluster_information with the clusters in the order argsort gave
cluster_information_ascending(x, t, features, order) ==
    LET summary == cluster_summary(x, t, features)
    IN  [means |-> Take(summary.means, order), stds |-> Take(summary.stds, order),
         counts |-> Take(summary.counts, order), idx |-> order]

\* cluster_information(X, T), order being what np.argsort(counts) returns
cluster_information(x, t, features, order) ==
    LET summary == cluster_summary(x, t, features)
        order_reversed == Reversed(order)
    IN  [means |-> Take(summary.means, order_reversed),
         stds |-> Take(summary.stds, order_reversed),
         counts |-> Take(summary.counts, order_reversed),
         idx |-> order_reversed]

\* ------------------------------------------------------------------ inputs

\* Signals of counts for the threshold estimators, in fixed point.
ResponseValues == {0, Scale, 9 * Scale}

Responses == UNION {[1..n -> ResponseValues] : n \in 0..MaxResponses}

\* n copies of v
Repeat(v, n) == [i \in 1..n |-> v]

\* Signals for fromBest: zeros, then samples at 5 (low, integer), at 1.03
\* (low, near an integer), at 1.5 (low, not near an integer) and at 9 (high).
BestResponses ==
    {Repeat(0, z) \o Repeat(5 * Scale, a) \o Repeat(Scale + (3 * Scale) \div 100, b)
        \o Repeat((3 * Scale) \div 2, c) \o Repeat(9 * Scale, h) :
        z \in 0..1, a \in 0..MaxLow, b \in 0..1, c \in 0..MaxLow, h \in 0..MaxHigh}

\* Backgrounds of Poisson counts of mean lam for the automatic selection: a
\* sample of integer counts one standard deviation either side of the mean,
\* which has mean lam. At lam of 20 and more a Poisson sample holds a count of
\* 5 or less with probability below 1e-4 per sample, so the sample without one
\* is the typical one; at lam of 3 and less every count drawn here is 5 or less.
PoissonMeans == {2, 3, 20, 49, 50, 51}

PoissonBackground(lam, reps) ==
    LET sd == ISqrt(lam)
    IN  <<(lam - sd) * Scale>> \o Repeat(lam * Scale, reps) \o <<(lam + sd) * Scale>>

PoissonBackgrounds == {PoissonBackground(lam, reps) : lam \in PoissonMeans, reps \in 1..2}

\* window_size: no window, an even and an odd window
WindowSizes == {0, 2, 3}


Signals == UNION {[1..n -> SampleValues] : n \in 0..MaxLen}

AccumulationLimits(n) ==
    {ScalarLimit(v) : v \in AccumulationValues}
    \cup {ArrayLimit(arr) : arr \in [1..n -> AccumulationValues]}

DetectionLimits(n) ==
    {ScalarLimit(v) : v \in DetectionValues}
    \cup {ArrayLimit(arr) : arr \in [1..n -> DetectionValues]}

\* the value an input has when it is given
InputValue(k) ==
    CASE k = "dwelltime" -> Scale
      [] k = "efficiency" -> Scale \div 2
      [] k = "uptake" -> Scale
      [] k = "response" -> 2 * Scale
      [] k = "mass_fraction" -> Scale \div 2
      [] k = "mass_response" -> 3 * Scale
      [] k = "density" -> 2 * Scale
      [] k = "cell_diameter" -> Scale
      [] k = "molar_mass" -> Scale
      [] k = "time" -> Scale

\* inputs_kws: every key is not given or given with its value, and the
\* density may be given as None
InputKws ==
    {[k \in InputKeys |->
        IF k \notin given THEN Absent
        ELSE IF k = "density" /\ density_none THEN NoneInput
        ELSE InputValue(k)] : given \in SUBSET InputKeys, density_none \in BOOLEAN}

\* the responses of one channel with their detections and labels: no
\* detection, one and two
DetectedSamples ==
    {[responses |-> <<Scale, Scale>>, detections |-> <<>>, labels |-> <<0, 0>>],
     [responses |-> <<Scale, 6 * Scale, Scale>>, detections |-> <<6 * Scale>>,
      labels |-> <<0, 1, 0>>],
     [responses |-> <<4 * Scale, 8 * Scale, 0, 7 * Scale>>,
      detections |-> <<12 * Scale, 7 * Scale>>, labels |-> <<1, 1, 0, 2>>]}

\* the inputs a client adds to and removes from result.inputs between two
\* calibrations: one of each route, the one of the sizes and one of the cell
\* concentrations
RecalibrationKeys == {"efficiency", "mass_response", "density", "molar_mass"}

RecalibrationKws ==
    {[k \in InputKeys |-> IF k \in RecalibrationKeys \ given THEN Absent ELSE InputValue(k)] :
        given \in SUBSET RecalibrationKeys}

\* the samples of the arrays the moving functions are called with
MovingValues == {0, 1, 3}

\* the keys of data in the order of the dict, and the signals of a detection
KeyOrders == {<<"Ag">>, <<"Ag", "Au">>, <<"Au", "Ag">>}
DetectionSignals == {0, Scale, 3 * Scale}

\* the numbers of features, the rows of X that prepare_data_for_clustering
\* makes of an event (fractions that add up to 1, or all 0), and the cluster
\* indices of T
Features == {1, 2}
Rows(features) ==
    {row \in [1..features -> {0, Scale}] : SumSeq(row) <= Scale}
ClusterIndices == {0, 1, 2}

\* the keys convertTo is called with
ConvertKeys == DetectionKeys \cup {"volume"}

\* ------------------------------------------------------------------ actions

\* The channels of a sample.
ChannelNames == {{"Ag"}, {"Ag", "Au"}}

\* what accumulate_detections returns for the channel signals of n samples
ChannelDetections(n) ==
    {det \in {accumulate_detections(signal, ScalarLimit(0), ScalarLimit(ld), FALSE) :
                signal \in [1..n -> SampleValues], ld \in DetectionValues} :
        det.outcome = "returned"}

\* no threshold estimation in progress
NuIdle ==
    /\ nu_index = <<>>
    /\ nu_aborted = FALSE
    /\ nu_running = FALSE
    /\ nu_controls = FALSE
    /\ nu_progress = 0
    /\ nu_maximum = 0
    /\ nu_results = <<>>
    /\ nu_pool = {}
    /\ nu_events = <<>>
    /\ nu_import = 0
    /\ nu_cancelled = {}
    /\ nu_dialog = "none"
    /\ nu_message = "none"
    /\ nu_emitted = <<>>

TofIdle ==
    /\ tof_samples = 0
    /\ tof_integrate = FALSE
    /\ thread_pc = "none"
    /\ thread_i = 0
    /\ interruption = FALSE
    /\ tof_events = <<>>
    /\ tof_progress = 0
    /\ tof_maximum = 0
    /\ tof_controls = FALSE
    /\ tof_dialog = "none"
    /\ tof_emitted = 0

MovingIdle ==
    /\ moving_x = <<>>
    /\ moving_n = 0
    /\ moving_call = "idle"
    /\ moving_r = <<>>
    /\ sort = <<>>
    /\ start = 0

PrepareIdle ==
    /\ data_names = <<>>
    /\ data = <<>>
    /\ prepare_outcome = "idle"
    /\ prepared = <<>>

LimitIdle ==
    /\ entry = "none"
    /\ method_string = None
    /\ kws = DefaultKws
    /\ poisson = NoLimit
    /\ gaussian = NoLimit
    /\ responses = <<>>
    /\ method = "none"
    /\ single_ion_dist = "none"
    /\ alpha = "1e-6"
    /\ window_size = 0
    /\ max_iters = 1
    /\ pc = "idle"
    /\ threshold = ScalarLimit(PosInf)
    /\ prev_threshold = ScalarLimit(PosInf)
    /\ mu = ScalarLimit(NaN)
    /\ iters = 0
    /\ history = <<>>
    /\ warned = FALSE
    /\ result = NoLimit

\* no detection call made
DetectIdle ==
    /\ y = <<>>
    /\ limit_accumulation = ScalarLimit(0)
    /\ limit_detection = ScalarLimit(0)
    /\ integrate = FALSE
    /\ call = "idle"
    /\ outcome = "none"
    /\ sums = <<>>
    /\ labels = <<>>
    /\ regions = <<>>

\* combine_detections not called
CombineIdle ==
    /\ sums_dict = <<>>
    /\ labels_dict = <<>>
    /\ regions_dict = <<>>
    /\ combine_outcome = "idle"
    /\ combined = <<>>
    /\ any_label = <<>>
    /\ all_regions = <<>>

ClusterIdle ==
    /\ X = <<>>
    /\ T = <<>>
    /\ cluster_outcome = "idle"
    /\ means = <<>>
    /\ stds = <<>>
    /\ counts = <<>>
    /\ order_idx = <<>>

ResultIdle ==
    /\ args = [responses |-> <<>>, detections |-> <<>>, labels |-> <<>>,
               inputs_kws |-> [k \in InputKeys |-> Absent], lod |-> 0]
    /\ res = NoObject
    /\ op = "idle"
    /\ key = ""
    /\ returned = NotCalled
    /\ widget = NoWidget

DetectInit ==
    /\ NuIdle
    /\ TofIdle
    /\ MovingIdle
    /\ PrepareIdle
    /\ ResultIdle
    /\ ClusterIdle
    /\ LimitIdle
    /\ CombineIdle
    /\ y \in Signals
    /\ limit_accumulation \in AccumulationLimits(Len(y))
    /\ limit_detection \in DetectionLimits(Len(y))
    /\ integrate = FALSE
    /\ call = "none"
    /\ outcome = "none"
    /\ sums = <<>>
    /\ labels = <<>>
    /\ regions = <<>>

\* spcal.detection.accumulate_detections(y, limit_accumulation,
\* limit_detection, integrate)
AccumulateDetections ==
    /\ call = "none"
    /\ \E integ \in BOOLEAN :
        LET r == accumulate_detections(y, limit_accumulation, limit_detection, integ)
        IN  /\ integrate' = integ
            /\ call' = "accumulate_detections"
            /\ outcome' = r.outcome
            /\ sums' = r.sums
            /\ labels' = r.labels
            /\ regions' = r.regions
    /\ UNCHANGED <<y, limit_accumulation, limit_detection>>
    /\ UNCHANGED exceptDetection

\* nanopart.util.accumulate_detections(y, limit_accumulation,
\* limit_detection, return_regions=True)
LegacyAccumulateDetections ==
    /\ call = "none"
    /\ LET r == legacy_accumulate_detections(y, limit_accumulation, limit_detection)
       IN  /\ call' = "legacy_accumulate_detections"
           /\ outcome' = r.outcome
           /\ sums' = r.sums
           /\ labels' = r.labels
           /\ regions' = r.regions
    /\ UNCHANGED <<y, limit_accumulation, limit_detection, integrate>>
    /\ UNCHANGED exceptDetection

\* spcal.detection.get_contiguous_regions(y, limit_accumulation)
GetContiguousRegions ==
    /\ call = "none"
    /\ call' = "get_contiguous_regions"
    /\ outcome' = "returned"
    /\ regions' = get_contiguous_regions(y, limit_accumulation)
    /\ UNCHANGED <<y, limit_accumulation, limit_detection, integrate, sums, labels>>
    /\ UNCHANGED exceptDetection

\* spcal.detection.label_regions(get_contiguous_regions(...), y.size)
LabelRegions ==
    /\ call = "none"
    /\ call' = "label_regions"
    /\ outcome' = "returned"
    /\ regions' = get_contiguous_regions(y, limit_accumulation)
    /\ labels' = label_regions(get_contiguous_regions(y, limit_accumulation), Len(y))
    /\ UNCHANGED <<y, limit_accumulation, limit_detection, integrate, sums>>
    /\ UNCHANGED exceptDetection

\* the detections of every channel of one sample, before they are combined
CombineInit ==
    /\ NuIdle
    /\ TofIdle
    /\ MovingIdle
    /\ PrepareIdle
    /\ ResultIdle
    /\ ClusterIdle
    /\ DetectIdle
    /\ LimitIdle
    /\ \E names \in ChannelNames, n \in 0..MaxCombineLen :
        \E det \in [names -> ChannelDetections(n)] :
            /\ sums_dict = [name \in names |-> det[name].sums]
            /\ labels_dict = [name \in names |-> det[name].labels]
            /\ regions_dict = [name \in names |-> det[name].regions]
    /\ combine_outcome = "none"
    /\ combined = <<>>
    /\ any_label = <<>>
    /\ all_regions = <<>>

\* spcal.detection.combine_detections(sums, labels, regions)
CombineDetections ==
    /\ combine_outcome = "none"
    /\ LET r == combine_detections(sums_dict, labels_dict, regions_dict)
       IN  /\ combine_outcome' = r.outcome
           /\ combined' = r.combined
           /\ any_label' = r.any_label
           /\ all_regions' = r.all_regions
    /\ UNCHANGED <<sums_dict, labels_dict, regions_dict>>
    /\ UNCHANGED exceptCombine

CombineNext == CombineDetections

\* a call of fromGaussian, fromPoisson or fromCompoundPoisson
LimitInit ==
    /\ NuIdle
    /\ TofIdle
    /\ MovingIdle
    /\ PrepareIdle
    /\ ResultIdle
    /\ ClusterIdle
    /\ DetectIdle
    /\ CombineIdle
    /\ entry = "direct"
    /\ method_string = None
    /\ kws = DefaultKws
    /\ poisson = NoLimit
    /\ gaussian = NoLimit
    /\ responses \in Responses
    /\ method \in {"Gaussian", "Poisson", "CompoundPoisson"}
    /\ single_ion_dist \in
        (IF method = "CompoundPoisson" THEN {"none", "given"} ELSE {"none"})
    /\ alpha \in Alphas
    /\ window_size \in (IF method = "CompoundPoisson" THEN {0} ELSE WindowSizes)
    /\ max_iters \in 0..MaxIters
    /\ pc = "start"
    /\ threshold = ScalarLimit(PosInf)
    /\ prev_threshold = ScalarLimit(PosInf)
    /\ mu = ScalarLimit(NaN)
    /\ iters = 0
    /\ history = <<>>
    /\ warned = FALSE
    /\ result = NoLimit

\* the size check, then threshold, prev_threshold = np.inf, np.inf; iters = 0
EnterEstimator ==
    /\ pc = "start"
    /\ IF method \in {"Gaussian", "Poisson"} /\ Len(responses) = 0
       THEN pc' = "ValueError"
       ELSE IF method = "Poisson" /\ ~KnownFormula(kws.formula)
       THEN pc' = "ValueError"
       ELSE pc' = "loop"
    /\ threshold' = ScalarLimit(PosInf)
    /\ prev_threshold' = ScalarLimit(PosInf)
    /\ iters' = 0
    /\ UNCHANGED <<entry, method_string, kws, poisson, gaussian, responses, method, single_ion_dist, alpha, window_size,
                   max_iters, mu, history, warned, result>>
    /\ UNCHANGED exceptLimit

\* one pass of the while loop
EstimatePass ==
    /\ pc = "loop"
    /\ LoopContinues(prev_threshold, threshold, Len(responses), iters, max_iters)
    /\ \E est \in EstimatorPasses(method, responses, threshold, window_size,
                                   single_ion_dist, alpha) :
        IF est.raised
        THEN /\ pc' = "ValueError"
             /\ prev_threshold' = threshold
             /\ UNCHANGED <<threshold, mu, iters, history>>
        ELSE /\ pc' = "loop"
             /\ prev_threshold' = threshold
             /\ mu' = est.mu
             /\ threshold' = est.threshold
             /\ iters' = iters + 1
             /\ history' = Append(history, est.threshold)
    /\ UNCHANGED <<entry, method_string, kws, poisson, gaussian, responses, method, single_ion_dist, alpha, window_size,
                   max_iters, warned, result>>
    /\ UNCHANGED exceptLimit

\* the loop ends: the warning, and the SPCalLimit returned
ReturnLimit ==
    /\ pc = "loop"
    /\ ~LoopContinues(prev_threshold, threshold, Len(responses), iters, max_iters)
    /\ pc' = "done"
    /\ warned' = ReachedMaxIters(iters, max_iters)
    /\ result' = [mean_signal |-> mu,
                  detection_threshold |-> threshold,
                  name |-> method,
                  params |-> LimitParams(method, alpha, window_size, iters)]
    /\ UNCHANGED <<entry, method_string, kws, poisson, gaussian, responses, method, single_ion_dist, alpha, window_size,
                   max_iters, threshold, prev_threshold, mu, iters, history>>
    /\ UNCHANGED exceptLimit

\* a call of fromBest
BestInit ==
    /\ NuIdle
    /\ TofIdle
    /\ MovingIdle
    /\ PrepareIdle
    /\ ResultIdle
    /\ ClusterIdle
    /\ DetectIdle
    /\ CombineIdle
    /\ entry = "fromBest"
    /\ method_string = None
    /\ kws = DefaultKws
    /\ poisson = NoLimit
    /\ gaussian = NoLimit
    /\ responses \in BestResponses
    /\ method = "none"
    /\ single_ion_dist = "none"
    /\ alpha = "1e-6"
    /\ window_size \in {0, 3}
    /\ max_iters \in 1..2
    /\ pc = "best"
    /\ threshold = ScalarLimit(PosInf)
    /\ prev_threshold = ScalarLimit(PosInf)
    /\ mu = ScalarLimit(NaN)
    /\ iters = 0
    /\ history = <<>>
    /\ warned = FALSE
    /\ result = NoLimit

\* fromBest: classify the signal and call the estimator chosen, with the
\* defaults of empty compound_kws, poisson_kws and gaussian_kws
FromBest ==
    /\ pc = "best"
    /\ LET choice == BestChoice(responses)
       IN  IF choice = "ZeroDivisionError"
           THEN /\ pc' = "ZeroDivisionError"
                /\ UNCHANGED <<method, alpha, window_size>>
           ELSE /\ pc' = "start"
                /\ method' = choice
                /\ alpha' = (CASE choice = "Poisson" -> kws.poisson
                                [] choice = "Gaussian" -> kws.gaussian
                                [] choice = "CompoundPoisson" -> kws.compound)
                /\ window_size' = (IF choice = "CompoundPoisson" THEN 0 ELSE window_size)
    /\ UNCHANGED <<entry, method_string, kws, poisson, gaussian, responses, single_ion_dist, max_iters, threshold,
                   prev_threshold, mu, iters, history, warned, result>>
    /\ UNCHANGED exceptLimit

\* a call of fromBest on a background of Poisson counts
AutomaticInit ==
    /\ NuIdle
    /\ TofIdle
    /\ MovingIdle
    /\ PrepareIdle
    /\ ResultIdle
    /\ ClusterIdle
    /\ DetectIdle
    /\ CombineIdle
    /\ entry = "fromBest"
    /\ method_string = None
    /\ kws = DefaultKws
    /\ poisson = NoLimit
    /\ gaussian = NoLimit
    /\ responses \in PoissonBackgrounds
    /\ method = "none"
    /\ single_ion_dist = "none"
    /\ alpha = "1e-6"
    /\ window_size \in {0, 3}
    /\ max_iters \in 1..2
    /\ pc = "best"
    /\ threshold = ScalarLimit(PosInf)
    /\ prev_threshold = ScalarLimit(PosInf)
    /\ mu = ScalarLimit(NaN)
    /\ iters = 0
    /\ history = <<>>
    /\ warned = FALSE
    /\ result = NoLimit

\* a call of fromHighest
HighestInit ==
    /\ NuIdle
    /\ TofIdle
    /\ MovingIdle
    /\ PrepareIdle
    /\ ResultIdle
    /\ ClusterIdle
    /\ DetectIdle
    /\ CombineIdle
    /\ entry = "fromHighest"
    /\ method_string = None
    /\ kws \in [poisson : {PoissonDefaultAlpha, "0.5"}, gaussian : {"1e-6", "0.5"},
                 compound : {"1e-6"}, formula : {FormulaC}]
    /\ poisson = NoLimit
    /\ gaussian = NoLimit
    /\ responses \in Responses
    /\ method = "none"
    /\ single_ion_dist = "none"
    /\ alpha = "1e-6"
    /\ window_size \in WindowSizes
    /\ max_iters \in 0..2
    /\ pc = "highest"
    /\ threshold = ScalarLimit(PosInf)
    /\ prev_threshold = ScalarLimit(PosInf)
    /\ mu = ScalarLimit(NaN)
    /\ iters = 0
    /\ history = <<>>
    /\ warned = FALSE
    /\ result = NoLimit

\* fromHighest: poisson = SPCalLimit.fromPoisson(...) is entered
HighestCallPoisson ==
    /\ pc = "highest"
    /\ pc' = "start"
    /\ method' = "Poisson"
    /\ alpha' = kws.poisson
    /\ UNCHANGED <<entry, method_string, kws, poisson, gaussian, responses, single_ion_dist,
                   window_size, max_iters, threshold, prev_threshold, mu, iters,
                   history, warned, result>>
    /\ UNCHANGED exceptLimit

\* fromHighest: fromPoisson returned, gaussian = SPCalLimit.fromGaussian(...)
\* is entered
HighestCallGaussian ==
    /\ entry = "fromHighest"
    /\ pc = "done"
    /\ method = "Poisson"
    /\ poisson' = result
    /\ pc' = "start"
    /\ method' = "Gaussian"
    /\ alpha' = kws.gaussian
    /\ history' = <<>>
    /\ result' = NoLimit
    /\ UNCHANGED <<entry, method_string, kws, gaussian, responses, single_ion_dist, window_size,
                   max_iters, threshold, prev_threshold, mu, iters, warned>>
    /\ UNCHANGED exceptLimit

\* fromHighest: fromGaussian returned, the higher of the two is returned
HighestReturn ==
    /\ entry = "fromHighest"
    /\ pc = "done"
    /\ method = "Gaussian"
    /\ gaussian' = result
    /\ result' = HighestChoice(poisson, result, Len(responses))
    /\ pc' = "returned"
    /\ UNCHANGED <<entry, method_string, kws, poisson, responses, method, single_ion_dist, alpha,
                   window_size, max_iters, threshold, prev_threshold, mu, iters,
                   history, warned>>
    /\ UNCHANGED exceptLimit

HighestNext ==
    \/ HighestCallPoisson
    \/ HighestCallGaussian
    \/ HighestReturn
    \/ EnterEstimator
    \/ EstimatePass
    \/ ReturnLimit

\* method strings: the documented names in several spellings, longer names
\* that start with a model name, and names no test accepts
MethodStrings ==
    { <<"A", "u", "t", "o", "m", "a", "t", "i", "c">>,
      Best,
      <<"H", "i", "g", "h", "e", "s", "t">>,
      Highest \o <<" ">>,
      Compound,
      <<"C", "o", "m", "p", "o", "u", "n", "d", " ", "P", "o", "i", "s", "s", "o", "n">>,
      <<"G", "A", "U", "S", "S", "I", "A", "N">>,
      Gaussian \o <<" ", "m", "e", "d", "i", "a", "n">>,
      <<"g", "a", "u", "s", "s">>,
      Poisson,
      Poisson \o <<"2">>,
      <<"M", "a", "n", "u", "a", "l", " ", "I", "n", "p", "u", "t">>,
      <<" ">> \o Poisson,
      <<>> }

\* formula strings for poisson_kws
FormulaStrings ==
    { FormulaC,
      <<"F", "o", "r", "m", "u", "l", "a", " ", "A">>,
      Currie,
      Stapleton \o <<" ", "a", "p", "p", "r", "o", "x", "i", "m", "a", "t", "i", "o", "n">>,
      Stapleton \o <<"x">>,
      <<"f", "o", "r", "m", "u", "l", "a", " ", "b">>,
      <<"f", "o", "r", "m", "u", "l", "a">>,
      <<>> }

\* signals for fromMethodString: empty, without a positive sample, low, high
MethodResponses ==
    { <<>>, <<0>>, <<Scale>>, <<0, Scale>>, <<9 * Scale>>, <<Scale, 9 * Scale>>,
      <<(3 * Scale) \div 2, 9 * Scale>> }

\* a call of fromMethodString
MethodStringInit ==
    /\ NuIdle
    /\ TofIdle
    /\ MovingIdle
    /\ PrepareIdle
    /\ ResultIdle
    /\ ClusterIdle
    /\ DetectIdle
    /\ CombineIdle
    /\ entry = "fromMethodString"
    /\ method_string \in MethodStrings
    /\ kws \in [poisson : {PoissonDefaultAlpha}, gaussian : {"1e-6"},
                 compound : {"1e-6"}, formula : FormulaStrings]
    /\ poisson = NoLimit
    /\ gaussian = NoLimit
    /\ responses \in MethodResponses
    /\ method = "none"
    /\ single_ion_dist = "none"
    /\ alpha = "1e-6"
    /\ window_size \in {0, 3}
    /\ max_iters \in 1..2
    /\ pc = "dispatch"
    /\ threshold = ScalarLimit(PosInf)
    /\ prev_threshold = ScalarLimit(PosInf)
    /\ mu = ScalarLimit(NaN)
    /\ iters = 0
    /\ history = <<>>
    /\ warned = FALSE
    /\ result = NoLimit

\* fromMethodString: lower the method string and call the constructor it names
FromMethodString ==
    /\ pc = "dispatch"
    /\ LET choice == MethodChoice(method_string)
       IN  CASE choice = "ValueError" ->
                    /\ pc' = "ValueError"
                    /\ UNCHANGED <<entry, method, alpha, window_size>>
             [] choice = "fromBest" ->
                    /\ pc' = "best"
                    /\ entry' = "fromBest"
                    /\ UNCHANGED <<method, alpha, window_size>>
             [] choice = "fromHighest" ->
                    /\ pc' = "highest"
                    /\ entry' = "fromHighest"
                    /\ UNCHANGED <<method, alpha, window_size>>
             [] choice = "CompoundPoisson" ->
                    /\ pc' = "start"
                    /\ entry' = "direct"
                    /\ method' = "CompoundPoisson"
                    /\ alpha' = kws.compound
                    /\ window_size' = 0
             [] choice = "Gaussian" ->
                    /\ pc' = "start"
                    /\ entry' = "direct"
                    /\ method' = "Gaussian"
                    /\ alpha' = kws.gaussian
                    /\ UNCHANGED window_size
             [] choice = "Poisson" ->
                    /\ pc' = "start"
                    /\ entry' = "direct"
                    /\ method' = "Poisson"
                    /\ alpha' = kws.poisson
                    /\ UNCHANGED window_size
    /\ UNCHANGED <<method_string, kws, poisson, gaussian, responses,
                   single_ion_dist, max_iters, threshold, prev_threshold, mu,
                   iters, history, warned, result>>
    /\ UNCHANGED exceptLimit

MethodStringNext ==
    \/ FromMethodString
    \/ FromBest
    \/ HighestCallPoisson
    \/ HighestCallGaussian
    \/ HighestReturn
    \/ EnterEstimator
    \/ EstimatePass
    \/ ReturnLimit

BestNext ==
    \/ FromBest
    \/ EnterEstimator
    \/ EstimatePass
    \/ ReturnLimit

LimitNext ==
    \/ EnterEstimator
    \/ EstimatePass
    \/ ReturnLimit

DetectNext ==
    \/ AccumulateDetections
    \/ LegacyAccumulateDetections
    \/ GetContiguousRegions
    \/ LabelRegions

\* the arguments of one SPCalResult, before it is constructed
ResultInit ==
    /\ NuIdle
    /\ TofIdle
    /\ MovingIdle
    /\ PrepareIdle
    /\ DetectIdle
    /\ LimitIdle
    /\ CombineIdle
    /\ ClusterIdle
    /\ \E d \in DetectedSamples, kw \in InputKws :
        args = [responses |-> d.responses, detections |-> d.detections,
                labels |-> d.labels, inputs_kws |-> kw, lod |-> 5 * Scale]
    /\ res = NoObject
    /\ op = "none"
    /\ key = ""
    /\ returned = NotCalled
    /\ widget = NoWidget

\* SPCalResult(file, responses, detections, labels, limits, inputs_kws)
Construct ==
    /\ op = "none"
    /\ op' = "__init__"
    /\ key' = ""
    /\ IF Len(args.detections) = 0
       THEN /\ returned' = Raise("ValueError")
            /\ res' = NoObject
       ELSE /\ returned' = ReturnNone
            /\ res' = NewResult(args)
    /\ UNCHANGED <<args, widget>>
    /\ UNCHANGED exceptResult

\* result.asMass(lod)
AsMass ==
    /\ res.exists
    /\ op' = "asMass"
    /\ key' = ""
    /\ returned' = asMass(res, args.lod)
    /\ UNCHANGED <<args, res, widget>>
    /\ UNCHANGED exceptResult

\* result.asSize(lod)
AsSize ==
    /\ res.exists
    /\ op' = "asSize"
    /\ key' = ""
    /\ returned' = asSize(res, args.lod)
    /\ UNCHANGED <<args, res, widget>>
    /\ UNCHANGED exceptResult

\* result.asCellConcentration(lod)
AsCellConcentration ==
    /\ res.exists
    /\ op' = "asCellConcentration"
    /\ key' = ""
    /\ returned' = asCellConcentration(res, args.lod)
    /\ UNCHANGED <<args, res, widget>>
    /\ UNCHANGED exceptResult

\* result.convertTo(lod, key)
ConvertTo ==
    /\ res.exists
    /\ \E k \in ConvertKeys :
        /\ op' = "convertTo"
        /\ key' = k
        /\ returned' = convertTo(res, args.lod, k)
    /\ UNCHANGED <<args, res, widget>>
    /\ UNCHANGED exceptResult

\* result.ionic_background
IonicBackground ==
    /\ res.exists
    /\ op' = "ionic_background"
    /\ key' = ""
    /\ returned' = ionic_background(res)
    /\ UNCHANGED <<args, res, widget>>
    /\ UNCHANGED exceptResult

\* result.mass_concentration
MassConcentration ==
    /\ res.exists
    /\ op' = "mass_concentration"
    /\ key' = ""
    /\ returned' = mass_concentration(res)
    /\ UNCHANGED <<args, res, widget>>
    /\ UNCHANGED exceptResult

\* result.number_concentration
NumberConcentration ==
    /\ res.exists
    /\ op' = "number_concentration"
    /\ key' = ""
    /\ returned' = number_concentration(res)
    /\ UNCHANGED <<args, res, widget>>
    /\ UNCHANGED exceptResult

\* result.fromNebulisationEfficiency()
FromNebulisationEfficiency ==
    /\ res.exists
    /\ LET r == fromNebulisationEfficiency(res)
       IN  /\ op' = "fromNebulisationEfficiency"
           /\ key' = ""
           /\ res' = r.object
           /\ returned' = r.returned
    /\ UNCHANGED <<args, widget>>
    /\ UNCHANGED exceptResult

\* a result constructed for a sequence of calibrations
RecalibrateInit ==
    /\ NuIdle
    /\ TofIdle
    /\ MovingIdle
    /\ PrepareIdle
    /\ DetectIdle
    /\ LimitIdle
    /\ CombineIdle
    /\ ClusterIdle
    /\ \E d \in DetectedSamples, kw \in RecalibrationKws :
        args = [responses |-> d.responses, detections |-> d.detections,
                labels |-> d.labels, inputs_kws |-> kw, lod |-> 5 * Scale]
    /\ res = NoObject
    /\ op = "none"
    /\ key = ""
    /\ returned = NotCalled
    /\ widget = NoWidget

\* result.inputs.update({k: v}): the inputs are a plain dict of the object
SetInput ==
    /\ res.exists
    /\ \E k \in RecalibrationKeys :
        /\ res.inputs[k] = Absent
        /\ op' = "inputs.update"
        /\ key' = k
        /\ res' = [res EXCEPT !.inputs[k] = InputValue(k)]
    /\ returned' = ReturnNone
    /\ UNCHANGED <<args, widget>>
    /\ UNCHANGED exceptResult

\* del result.inputs[k]
RemoveInput ==
    /\ res.exists
    /\ \E k \in RecalibrationKeys :
        /\ res.inputs[k] # Absent
        /\ op' = "inputs.__delitem__"
        /\ key' = k
        /\ res' = [res EXCEPT !.inputs[k] = Absent]
    /\ returned' = ReturnNone
    /\ UNCHANGED <<args, widget>>
    /\ UNCHANGED exceptResult

\* ------------------------------------------------ TofwerkImportDialog

\* a TofwerkImportDialog that has been opened
TofInit ==
    /\ NuIdle
    /\ DetectIdle
    /\ LimitIdle
    /\ CombineIdle
    /\ ResultIdle
    /\ ClusterIdle
    /\ PrepareIdle
    /\ MovingIdle
    /\ tof_samples \in 0..MaxSamples
    /\ tof_integrate \in BOOLEAN
    /\ thread_pc = "none"
    /\ thread_i = 0
    /\ interruption = FALSE
    /\ tof_events = <<>>
    /\ tof_progress = -1
    /\ tof_maximum = 100
    /\ tof_controls = TRUE
    /\ tof_dialog = "open"
    /\ tof_emitted = 0

\* TofwerkImportDialog.accept(), the first time Ok is pressed: start the
\* integration thread, or finalise the peak data of the file at once
TofAccept ==
    /\ tof_dialog = "open"
    /\ tof_controls
    /\ thread_pc = "none"
    /\ IF tof_integrate
       THEN /\ tof_progress' = SetValue(tof_progress, 0, tof_maximum)
            /\ tof_controls' = FALSE
            /\ thread_pc' = "run"
            /\ UNCHANGED <<tof_dialog, tof_emitted>>
       ELSE /\ tof_emitted' = tof_emitted + 1
            /\ tof_dialog' = "accepted"
            /\ UNCHANGED <<tof_progress, tof_controls, thread_pc>>
    /\ UNCHANGED <<tof_samples, tof_integrate, thread_i, interruption, tof_events, tof_maximum>>
    /\ UNCHANGED exceptTof

\* run(): allocate data and emit integrationStarted
ThreadStarted ==
    /\ thread_pc = "run"
    /\ thread_pc' = "for"
    /\ thread_i' = 0
    /\ tof_events' = Append(tof_events, "integrationStarted")
    /\ UNCHANGED <<tof_samples, tof_integrate, interruption, tof_progress, tof_maximum,
                   tof_controls, tof_dialog, tof_emitted>>
    /\ UNCHANGED exceptTof

\* run(): the for statement takes the next sample, or leaves the loop, and
\* with a sample the interruption is tested
ThreadNextSample ==
    /\ thread_pc = "for"
    /\ thread_pc' = (IF thread_i = tof_samples THEN "scale"
                     ELSE IF interruption THEN "returned"
                     ELSE "integrate")
    /\ UNCHANGED <<tof_samples, tof_integrate, thread_i, interruption, tof_events, tof_progress,
                   tof_maximum, tof_controls, tof_dialog, tof_emitted>>
    /\ UNCHANGED exceptTof

\* run(): integrate the sample and emit sampleIntegrated
ThreadIntegrated ==
    /\ thread_pc = "integrate"
    /\ thread_pc' = "for"
    /\ thread_i' = thread_i + 1
    /\ tof_events' = Append(tof_events, "sampleIntegrated")
    /\ UNCHANGED <<tof_samples, tof_integrate, interruption, tof_progress, tof_maximum,
                   tof_controls, tof_dialog, tof_emitted>>
    /\ UNCHANGED exceptTof

\* run(): scale the data, emit integrationComplete and return
ThreadCompleted ==
    /\ thread_pc = "scale"
    /\ thread_pc' = "returned"
    /\ tof_events' = Append(tof_events, "integrationComplete")
    /\ UNCHANGED <<tof_samples, tof_integrate, thread_i, interruption, tof_progress,
                   tof_maximum, tof_controls, tof_dialog, tof_emitted>>
    /\ UNCHANGED exceptTof

\* the dialog's thread runs the slot of the oldest queued signal:
\* progress.setMaximum, the lambda that advances the progress, or finalise,
\* which emits dataImported and accepts the dialog
TofDeliver ==
    /\ tof_events # <<>>
    /\ tof_events' = Tail(tof_events)
    /\ LET signal == Head(tof_events)
       IN  CASE signal = "integrationStarted" ->
                    /\ tof_maximum' = tof_samples
                    /\ tof_progress' = (IF tof_progress > tof_samples THEN tof_samples
                                        ELSE tof_progress)
                    /\ UNCHANGED <<tof_dialog, tof_emitted>>
             [] signal = "sampleIntegrated" ->
                    /\ tof_progress' = SetValue(tof_progress, tof_progress + 1, tof_maximum)
                    /\ UNCHANGED <<tof_maximum, tof_dialog, tof_emitted>>
             [] signal = "integrationComplete" ->
                    /\ tof_emitted' = tof_emitted + 1
                    /\ tof_dialog' = "accepted"
                    /\ UNCHANGED <<tof_progress, tof_maximum>>
    /\ UNCHANGED <<tof_samples, tof_integrate, thread_pc, thread_i, interruption, tof_controls>>
    /\ UNCHANGED exceptTof

\* TofwerkImportDialog.reject()
TofReject ==
    /\ tof_dialog = "open"
    /\ IF isRunning(thread_pc)
       THEN /\ interruption' = TRUE
            /\ tof_progress' = -1
            /\ tof_controls' = TRUE
            /\ UNCHANGED tof_dialog
       ELSE /\ tof_dialog' = "rejected"
            /\ UNCHANGED <<interruption, tof_progress, tof_controls>>
    /\ UNCHANGED <<tof_samples, tof_integrate, thread_pc, thread_i, tof_events, tof_maximum,
                   tof_emitted>>
    /\ UNCHANGED exceptTof

\* ---------------------------------------------------- NuImportDialog

\* a NuImportDialog that has been opened: each entry of the index has a file
\* that can be read, a file whose read raises, or no file
NuInit ==
    /\ DetectIdle
    /\ LimitIdle
    /\ CombineIdle
    /\ ResultIdle
    /\ ClusterIdle
    /\ PrepareIdle
    /\ MovingIdle
    /\ TofIdle
    /\ nu_index \in UNION {[1..n -> {"read", "raises", "missing"}] : n \in 1..MaxFiles}
    /\ nu_aborted = FALSE
    /\ nu_running = FALSE
    /\ nu_controls = TRUE
    /\ nu_progress = -1
    /\ nu_maximum = 100
    /\ nu_results = <<>>
    /\ nu_pool = {}
    /\ nu_events = <<>>
    /\ nu_import = 0
    /\ nu_cancelled = {}
    /\ nu_dialog = "open"
    /\ nu_message = "none"
    /\ nu_emitted = <<>>

\* NuImportDialog.accept(): one worker per entry with a file, a step of the
\* progress bar per entry without
NuAccept ==
    /\ nu_dialog = "open"
    /\ nu_controls
    /\ nu_message = "none"
    /\ nu_import < MaxImports
    /\ nu_controls' = FALSE
    /\ nu_aborted' = FALSE
    /\ nu_running' = TRUE
    /\ nu_maximum' = Len(nu_index)
    /\ nu_progress' = Cardinality(MissingEntries(nu_index))
    /\ nu_results' = <<>>
    /\ nu_import' = nu_import + 1
    /\ nu_pool' = nu_pool \cup
            {<<nu_import + 1, k>> : k \in (1..Len(nu_index)) \ MissingEntries(nu_index)}
    /\ UNCHANGED <<nu_index, nu_events, nu_cancelled, nu_dialog, nu_message, nu_emitted>>
    /\ UNCHANGED exceptNu

\* a worker of the pool runs read_signals and emits its signals
WorkerRun ==
    /\ \E w \in nu_pool :
        /\ nu_pool' = nu_pool \ {w}
        /\ nu_events' = nu_events \o WorkerSignals(nu_index, w)
    /\ UNCHANGED <<nu_index, nu_aborted, nu_running, nu_controls, nu_progress, nu_maximum,
                   nu_results, nu_import, nu_cancelled, nu_dialog, nu_message, nu_emitted>>
    /\ UNCHANGED exceptNu

\* NuImportDialog.abort(): threadpool.clear() drops the workers not yet
\* started, waitForDone() lets the others run to their end
Abort(queued, cleared) ==
    /\ nu_aborted' = TRUE
    /\ nu_pool' = {}
    /\ nu_events' = queued \o SignalsOf(nu_index, nu_pool \ cleared)
    /\ nu_progress' = -1
    /\ nu_running' = FALSE
    /\ nu_controls' = TRUE
    /\ nu_cancelled' = nu_cancelled \cup {nu_import}

\* NuImportDialog.finalise(): wait up to a second for the pool, build the
\* data from results and emit dataImported, or show the failure
Finalise(signal, done, raised) ==
    /\ nu_pool' = nu_pool \ done
    /\ nu_events' = Tail(nu_events) \o SignalsOf(nu_index, done)
    /\ nu_running' = FALSE
    /\ IF raised
       THEN /\ nu_message' = "finalise"
            /\ UNCHANGED <<nu_dialog, nu_emitted>>
       ELSE /\ nu_emitted' = Append(nu_emitted,
                    [import |-> nu_import, by |-> signal.import,
                     cancelled |-> signal.import \in nu_cancelled,
                     results |-> {nu_results[i] : i \in 1..Len(nu_results)}])
            /\ nu_dialog' = "accepted"
            /\ UNCHANGED nu_message

\* the dialog's thread runs the slot of the oldest queued signal:
\* results.append, threadComplete or threadFailed
NuDeliver ==
    /\ nu_events # <<>>
    /\ LET signal == Head(nu_events)
       IN  CASE signal.kind = "result" ->
                    /\ nu_results' = Append(nu_results, <<signal.import, signal.entry>>)
                    /\ nu_events' = Tail(nu_events)
                    /\ UNCHANGED <<nu_aborted, nu_running, nu_controls, nu_progress, nu_pool,
                                   nu_cancelled, nu_dialog, nu_message, nu_emitted>>
             [] signal.kind = "finished" ->
                    IF nu_aborted
                    THEN /\ nu_events' = Tail(nu_events)
                         /\ UNCHANGED <<nu_aborted, nu_running, nu_controls, nu_progress,
                                        nu_results, nu_pool, nu_cancelled, nu_dialog,
                                        nu_message, nu_emitted>>
                    ELSE /\ nu_progress' = SetValue(nu_progress, nu_progress + 1, nu_maximum)
                         /\ IF nu_progress' = nu_maximum /\ nu_running
                            THEN \E done \in SUBSET nu_pool, raised \in BOOLEAN :
                                    Finalise(signal, done, raised)
                            ELSE /\ nu_events' = Tail(nu_events)
                                 /\ UNCHANGED <<nu_running, nu_pool, nu_dialog, nu_message,
                                                nu_emitted>>
                         /\ UNCHANGED <<nu_aborted, nu_controls, nu_results, nu_cancelled>>
             [] signal.kind = "exception" ->
                    IF nu_aborted
                    THEN /\ nu_events' = Tail(nu_events)
                         /\ UNCHANGED <<nu_aborted, nu_running, nu_controls, nu_progress,
                                        nu_results, nu_pool, nu_cancelled, nu_dialog,
                                        nu_message, nu_emitted>>
                    ELSE /\ \E cleared \in SUBSET nu_pool : Abort(Tail(nu_events), cleared)
                         /\ nu_message' = (IF nu_message = "finalise" THEN "finalise"
                                           ELSE "threadFailed")
                         /\ UNCHANGED <<nu_results, nu_dialog, nu_emitted>>
    /\ UNCHANGED <<nu_index, nu_maximum, nu_import>>
    /\ UNCHANGED exceptNu

\* the message box of threadFailed or of finalise is closed; finalise then
\* calls abort()
NuCloseMessage ==
    /\ nu_message # "none"
    /\ nu_message' = "none"
    /\ IF nu_message = "finalise"
       THEN \E cleared \in SUBSET nu_pool : Abort(nu_events, cleared)
       ELSE UNCHANGED <<nu_aborted, nu_pool, nu_events, nu_progress, nu_running, nu_controls,
                        nu_cancelled>>
    /\ UNCHANGED <<nu_index, nu_maximum, nu_results, nu_import, nu_dialog, nu_emitted>>
    /\ UNCHANGED exceptNu

\* NuImportDialog.reject()
NuReject ==
    /\ nu_dialog = "open"
    /\ nu_message = "none"
    /\ IF nu_running
       THEN /\ \E cleared \in SUBSET nu_pool : Abort(nu_events, cleared)
            /\ UNCHANGED nu_dialog
       ELSE /\ nu_dialog' = "rejected"
            /\ UNCHANGED <<nu_aborted, nu_pool, nu_events, nu_progress, nu_running, nu_controls,
                           nu_cancelled>>
    /\ UNCHANGED <<nu_index, nu_maximum, nu_results, nu_import, nu_message, nu_emitted>>
    /\ UNCHANGED exceptNu

\* result.fromMassResponse()
FromMassResponse ==
    /\ res.exists
    /\ LET r == fromMassResponse(res)
       IN  /\ op' = "fromMassResponse"
           /\ key' = ""
           /\ res' = r.object
           /\ returned' = r.returned
    /\ UNCHANGED <<args, widget>>
    /\ UNCHANGED exceptResult

\* ResultsWidget.updateResultsMassResponse(massresponse), the sample holding
\* the detections, limits[3] the limit of detection and molarratio the text
\* of the sample's field
UpdateResultsMassResponse ==
    /\ ~widget.updated
    /\ Len(args.detections) > 0
    /\ args.inputs_kws["mass_response"] > 0
    /\ args.inputs_kws["mass_fraction"] > 0
    /\ widget' = updateResultsMassResponse(args.detections, args.lod,
                    args.inputs_kws["mass_response"], args.inputs_kws["mass_fraction"])
    /\ UNCHANGED <<args, res, op, key, returned>>
    /\ UNCHANGED exceptResult

ResultNext ==
    \/ Construct
    \/ AsMass
    \/ AsSize
    \/ AsCellConcentration
    \/ ConvertTo
    \/ IonicBackground
    \/ MassConcentration
    \/ NumberConcentration
    \/ FromNebulisationEfficiency
    \/ FromMassResponse
    \/ UpdateResultsMassResponse

\* an array x and a window n with 1 <= n <= x.size
MovingInit ==
    /\ NuIdle
    /\ TofIdle
    /\ DetectIdle
    /\ LimitIdle
    /\ CombineIdle
    /\ ResultIdle
    /\ ClusterIdle
    /\ PrepareIdle
    /\ \E size \in 1..(MaxLen + 1) :
        /\ moving_x \in [1..size -> MovingValues]
        /\ moving_n \in 1..size
    /\ moving_call = "none"
    /\ moving_r = <<>>
    /\ sort = <<>>
    /\ start = 0

\* calc.moving_mean(x, n)
MovingMean ==
    /\ moving_call = "none"
    /\ moving_call' = "moving_mean"
    /\ moving_r' = moving_mean(moving_x, moving_n)
    /\ UNCHANGED <<moving_x, moving_n, sort, start>>
    /\ UNCHANGED exceptMoving

\* calc.moving_std(x, n)
MovingStd ==
    /\ moving_call = "none"
    /\ moving_call' = "moving_std"
    /\ moving_r' = moving_std(moving_x, moving_n)
    /\ UNCHANGED <<moving_x, moving_n, sort, start>>
    /\ UNCHANGED exceptMoving

\* calc.moving_median(x, n) up to its loop: sort = sorted(x[:n])
MovingMedianEnter ==
    /\ moving_call = "none"
    /\ moving_call' = "moving_median loop"
    /\ sort' = sorted(SubSeq(moving_x, 1, moving_n))
    /\ start' = 0
    /\ moving_r' = <<>>
    /\ UNCHANGED <<moving_x, moving_n>>
    /\ UNCHANGED exceptMoving

\* one pass of for start in range(x.size - n)
MovingMedianPass ==
    /\ moving_call = "moving_median loop"
    /\ start < Len(moving_x) - moving_n
    /\ moving_r' = Append(moving_r, MiddleSum(sort, moving_n))
    /\ sort' = insort(DeleteAt(sort, bisect_left(sort, moving_x[start + 1])),
                      moving_x[start + moving_n + 1])
    /\ start' = start + 1
    /\ UNCHANGED <<moving_x, moving_n, moving_call>>
    /\ UNCHANGED exceptMoving

\* after the loop: r[-1] = sort[m] + sort[m2]; return r / 2.0
MovingMedianReturn ==
    /\ moving_call = "moving_median loop"
    /\ start >= Len(moving_x) - moving_n
    /\ moving_call' = "moving_median"
    /\ moving_r' = [k \in 1..(Len(moving_r) + 1) |->
                        Ratio(Append(moving_r, MiddleSum(sort, moving_n))[k], 2)]
    /\ UNCHANGED <<moving_x, moving_n, sort, start>>
    /\ UNCHANGED exceptMoving

MovingNext ==
    \/ MovingMean
    \/ MovingStd
    \/ MovingMedianEnter
    \/ MovingMedianPass
    \/ MovingMedianReturn

\* the detections of every channel, one value per event
PrepareInit ==
    /\ NuIdle
    /\ TofIdle
    /\ MovingIdle
    /\ DetectIdle
    /\ LimitIdle
    /\ CombineIdle
    /\ ResultIdle
    /\ ClusterIdle
    /\ \E names \in KeyOrders, n \in 0..MaxEvents :
        /\ data_names = names
        /\ data \in [{names[j] : j \in 1..Len(names)} -> [1..n -> DetectionSignals]]
    /\ prepare_outcome = "none"
    /\ prepared = <<>>

\* spcal.cluster.prepare_data_for_clustering(data)
PrepareDataForClustering ==
    /\ prepare_outcome = "none"
    /\ prepare_outcome' = "returned"
    /\ prepared' = prepare_data_for_clustering(data_names, data)
    /\ UNCHANGED <<data_names, data>>
    /\ UNCHANGED exceptPrepare

PrepareNext == PrepareDataForClustering

\* X of shape (events, features) and T, a cluster index for every event
ClusterInit ==
    /\ NuIdle
    /\ TofIdle
    /\ MovingIdle
    /\ PrepareIdle
    /\ DetectIdle
    /\ LimitIdle
    /\ CombineIdle
    /\ ResultIdle
    /\ \E n \in 0..MaxEvents, features \in Features :
        /\ X \in [1..n -> Rows(features)]
        /\ T \in [1..n -> ClusterIndices]
    /\ cluster_outcome = "none"
    /\ means = <<>>
    /\ stds = <<>>
    /\ counts = <<>>
    /\ order_idx = <<>>

\* spcal.cluster.cluster_information(X, T)
ClusterInformation ==
    /\ cluster_outcome = "none"
    /\ \E order \in ArgsortResults(bincount(T)) :
        LET features == IF X = <<>> THEN 1 ELSE Len(X[1])
            r == cluster_information(X, T, features, order)
        IN  /\ cluster_outcome' = "returned"
            /\ means' = r.means
            /\ stds' = r.stds
            /\ counts' = r.counts
            /\ order_idx' = r.idx
    /\ UNCHANGED <<X, T>>
    /\ UNCHANGED exceptCluster

ClusterNext == ClusterInformation

SpecDetection == DetectInit /\ [][DetectNext]_vars

SpecLimit == LimitInit /\ [][LimitNext]_vars

SpecBest == BestInit /\ [][BestNext]_vars
SpecAutomatic == AutomaticInit /\ [][BestNext]_vars

TofNext ==
    \/ TofAccept
    \/ ThreadStarted
    \/ ThreadNextSample
    \/ ThreadIntegrated
    \/ ThreadCompleted
    \/ TofDeliver
    \/ TofReject

SpecTofwerk == TofInit /\ [][TofNext]_vars

NuNext ==
    \/ NuAccept
    \/ WorkerRun
    \/ NuDeliver
    \/ NuCloseMessage
    \/ NuReject

SpecNu == NuInit /\ [][NuNext]_vars

RecalibrateNext ==
    \/ Construct
    \/ FromNebulisationEfficiency
    \/ FromMassResponse
    \/ SetInput
    \/ RemoveInput

SpecRecalibrate == RecalibrateInit /\ [][RecalibrateNext]_vars

SpecHighest == HighestInit /\ [][HighestNext]_vars

SpecMethodString == MethodStringInit /\ [][MethodStringNext]_vars

SpecCombine == CombineInit /\ [][CombineNext]_vars

SpecResult == ResultInit /\ [][ResultNext]_vars

SpecCluster == ClusterInit /\ [][ClusterNext]_vars

SpecPrepare == PrepareInit /\ [][PrepareNext]_vars

SpecMoving == MovingInit /\ [][MovingNext]_vars

Init ==
    \/ DetectInit
    \/ LimitInit
    \/ BestInit
    \/ HighestInit
    \/ MethodStringInit
    \/ CombineInit
    \/ ResultInit
    \/ ClusterInit
    \/ PrepareInit
    \/ MovingInit
    \/ AutomaticInit
    \/ RecalibrateInit
    \/ TofInit
    \/ NuInit

Next == DetectNext \/ MethodStringNext \/ CombineNext \/ ResultNext
            \/ ClusterNext \/ PrepareNext \/ MovingNext
            \/ RecalibrateNext \/ TofNext \/ NuNext

Spec == Init /\ [][Next]_vars

\* ------------------------------------------------- properties: detection

\* the maximal runs of samples strictly above a limit, as [start, end) pairs
MaximalRuns(x, limit) ==
    {r \in (0..Len(x)) \X (0..Len(x)) :
        /\ r[1] < r[2]
        /\ \A i \in r[1]..(r[2] - 1) : x[i + 1] > LimitAt(limit, i)
        /\ r[1] = 0 \/ ~(x[r[1]] > LimitAt(limit, r[1] - 1))
        /\ r[2] = Len(x) \/ ~(x[r[2] + 1] > LimitAt(limit, r[2]))}

SeqRange(s) == {s[k] : k \in 1..Len(s)}

HoldsDetection(r) ==
    \E i \in r[1]..(r[2] - 1) : y[i + 1] > LimitAt(limit_detection, i)

RECURSIVE RangeSum(_, _, _)
RangeSum(f, lo, hi) == IF lo >= hi THEN 0 ELSE f[lo + 1] + RangeSum(f, lo + 1, hi)

Accumulated == call = "accumulate_detections" /\ outcome = "returned"

\* C1: accumulate_detections keeps a region found above the accumulation
\* limit iff some sample inside it is strictly above the detection limit;
\* all other regions are discarded. Scalar and per-sample limits, and a
\* region that reaches the last sample, included.
C1_KeptIffDetection ==
    call = "accumulate_detections" /\ ~LimitsMisordered(limit_accumulation, limit_detection, Len(y))
    => /\ outcome = "returned"
       /\ SeqRange(regions) =
            {r \in MaximalRuns(y, limit_accumulation) : HoldsDetection(r)}
       /\ Cardinality(SeqRange(regions)) = Len(regions)

\* a per-sample detection limit, one region dropped and the region that
\* reaches the last sample kept
C1_Witness ==
    /\ Accumulated
    /\ limit_detection.kind = "array"
    /\ Cardinality(MaximalRuns(y, limit_accumulation)) = 2
    /\ Len(regions) = 1
    /\ regions[1][2] = Len(y)

\* C2: get_contiguous_regions returns exactly the maximal runs of samples
\* strictly above the limit as [start, end) pairs, disjoint and in ascending
\* start order; k bursts on a zero background give k regions with their true
\* extents, and a run still above the limit at the last sample ends at the
\* signal length.
C2_RegionsAreMaximalRuns ==
    call = "get_contiguous_regions"
    => /\ SeqRange(regions) = MaximalRuns(y, limit_accumulation)
       /\ Cardinality(SeqRange(regions)) = Len(regions)
       /\ \A k \in 1..Len(regions) : regions[k][1] < regions[k][2]
       /\ \A k \in 1..(Len(regions) - 1) : regions[k][2] <= regions[k + 1][1]
       /\ (Len(y) > 0 /\ y[Len(y)] > LimitAt(limit_accumulation, Len(y) - 1)
            => regions[Len(regions)][2] = Len(y))

\* two bursts on a zero background, the second still high at the last sample
C2_Witness ==
    /\ call = "get_contiguous_regions"
    /\ limit_accumulation = ScalarLimit(1)
    /\ y = <<2, 0, 2>>
    /\ regions = << <<0, 1>>, <<2, 3>> >>

\* the label a sample must carry: i inside the i-th region, 0 outside
ExpectedLabel(rs, i) ==
    IF \E k \in 1..Len(rs) : rs[k][1] <= i /\ i < rs[k][2]
    THEN CHOOSE k \in 1..Len(rs) : rs[k][1] <= i /\ i < rs[k][2]
    ELSE 0

\* C3: the labels of label_regions / accumulate_detections have the signal's
\* length, are 0 outside the surviving regions and i on the i-th surviving
\* region, also when the last region ends at the signal length and when
\* there is no region.
C3_LabelsMatchRegions ==
    (Accumulated \/ call = "label_regions")
    => /\ Len(labels) = Len(y)
       /\ \A i \in 0..(Len(y) - 1) : labels[i + 1] = ExpectedLabel(regions, i)

\* two labelled regions, the second ending at the signal length
C3_Witness ==
    /\ Accumulated
    /\ Len(regions) = 2
    /\ regions[2][2] = Len(y)
    /\ labels = <<1, 0, 2>>

\* no region at all: every label is 0
C3_WitnessEmpty ==
    /\ Accumulated
    /\ Len(y) = MaxLen
    /\ regions = <<>>
    /\ \A i \in 1..Len(labels) : labels[i] = 0

\* C4: one sum per surviving region, in region order: the raw samples of
\* [start, end), or with integrate the samples minus the accumulation limit
\* at each sample; nothing outside the region contributes.
C4_SumsOverRegions ==
    Accumulated
    => /\ Len(sums) = Len(regions)
       /\ \A k \in 1..Len(regions) :
            sums[k] = RangeSum(
                [i \in 1..Len(y) |->
                    IF integrate THEN y[i] - LimitAt(limit_accumulation, i - 1)
                    ELSE y[i]],
                regions[k][1], regions[k][2])

\* integrated sums against a per-sample limit with a region dropped before
\* the kept one
C4_Witness ==
    /\ Accumulated
    /\ integrate
    /\ limit_accumulation.kind = "array"
    /\ Cardinality(MaximalRuns(y, limit_accumulation)) = 2
    /\ Len(regions) = 1
    /\ regions[1][1] > 0
    /\ sums[1] > 0

\* the accumulation limit exceeds the detection limit somewhere
ExceedsSomewhere ==
    IF limit_accumulation.kind = "scalar" /\ limit_detection.kind = "scalar"
    THEN limit_accumulation.s > limit_detection.s
    ELSE \E i \in 0..(Len(y) - 1) :
            LimitAt(limit_accumulation, i) > LimitAt(limit_detection, i)

\* C5: accumulate_detections raises the ordering ValueError whenever the
\* accumulation limit exceeds the detection limit at any sample, before any
\* region, sum or label exists, and never raises it otherwise.
C5_OrderingError ==
    call \in {"accumulate_detections", "legacy_accumulate_detections"}
    => /\ (outcome = "ValueError") = ExceedsSomewhere
       /\ (outcome = "ValueError"
            => regions = <<>> /\ sums = <<>> /\ labels = <<>>)

\* per-sample limits misordered at one sample only, on a signal with a burst
C5_Witness ==
    /\ call = "accumulate_detections"
    /\ outcome = "ValueError"
    /\ limit_accumulation.kind = "array"
    /\ limit_detection.kind = "array"
    /\ \E i \in 0..(Len(y) - 1) :
        LimitAt(limit_accumulation, i) <= LimitAt(limit_detection, i)
    /\ MaximalRuns(y, limit_accumulation) # {}

\* ------------------------------------------------- properties: thresholds

AccumulationMethods == {"detection threshold", "half detection threshold", "signal mean"}

\* the samples over which a returned limit is defined
LimitIndices(lim) ==
    IF lim.detection_threshold.kind = "scalar" THEN {0}
    ELSE 0..(Len(lim.detection_threshold.a) - 1)

\* C6: for every limit returned by fromGaussian, fromPoisson or
\* fromCompoundPoisson and each accumulation method,
\* mean background <= accumulationLimit(method) <= detection_threshold at
\* every sample, so the detection limit is never negative and the ordering
\* precondition of accumulate_detections holds.
C6_LimitsOrdered ==
    pc = "done"
    => \A how \in AccumulationMethods : \A i \in LimitIndices(result) :
        /\ Le(LimitAt(result.mean_signal, i),
              LimitAt(accumulationLimit(result, how), i))
        /\ Le(LimitAt(accumulationLimit(result, how), i),
              LimitAt(result.detection_threshold, i))

\* the threshold before pass k (1-based): np.inf before the first
ThresholdBefore(k) == IF k = 1 THEN ScalarLimit(PosInf) ELSE history[k - 1]

\* pass k lowered the threshold, at every sample in windowed mode
PassLowered(k) ==
    \A i \in CompareIndices(ThresholdBefore(k), history[k], Len(responses)) :
        Lt(LimitAt(history[k], i), LimitAt(ThresholdBefore(k), i))

\* C7: the threshold starts at infinity, each pass estimates the background
\* only from samples below the current threshold, and a further pass is taken
\* only after a pass that lowered the threshold (at every sample in windowed
\* mode); the loop stops at the first pass that did not, so the thresholds of
\* successive passes are strictly decreasing except possibly the last.
C7_PassesStrictlyDecrease ==
    /\ pc = "loop" /\ iters = 0 => threshold = ScalarLimit(PosInf)
    /\ Len(history) = iters
    /\ \A k \in 1..(Len(history) - 1) : PassLowered(k)
    /\ pc = "done" /\ iters < max_iters => ~PassLowered(iters)
    /\ iters >= 1 /\ pc \in {"loop", "done"} =>
        /\ threshold = history[iters]
        /\ prev_threshold = ThresholdBefore(iters)
        /\ window_size = 0 =>
            LET below == {i \in 1..Len(responses) :
                            Lt(Fin(responses[i]), prev_threshold.s)}
            IN  /\ IsNaN(mu.s) = (below = {})
                /\ IsFinite(mu.s) =>
                    /\ \E i \in below : responses[i] >= mu.s[2]
                    /\ \E i \in below : responses[i] <= mu.s[2]

\* windowed: two passes lowered the threshold at every sample, the third
\* did not, and the loop stopped with passes to spare
C7_Witness ==
    /\ pc = "done"
    /\ window_size > 0
    /\ iters = 3
    /\ max_iters > 3
    /\ PassLowered(1)
    /\ PassLowered(2)
    /\ ~PassLowered(3)

Max(a, b) == IF a >= b THEN a ELSE b

\* C8: for every signal and every max_iters (0 included) the refinement loop
\* ends after at least one and at most max(1, max_iters) passes; max_iters of
\* 1 or 0 gives exactly one pass.
C8_PassesBounded ==
    /\ iters <= Max(1, max_iters)
    /\ pc = "done" => iters >= 1
    /\ pc = "done" /\ max_iters <= 1 => iters = 1
    /\ pc = "loop" /\ iters = Max(1, max_iters) =>
        ~LoopContinues(prev_threshold, threshold, Len(responses), iters, max_iters)

\* max_iters = 0 ends after exactly one pass
C8_Witness ==
    /\ pc = "done"
    /\ max_iters = 0
    /\ iters = 1
    /\ Len(responses) = MaxResponses

\* the final pass of an iteration lowered the threshold: a single pass
\* (max_iters <= 1) is no iteration and has no earlier pass to compare with
FinalPassLowered ==
    iters > 1 /\ PassLowered(iters)

\* C9: the non-convergence warning is logged iff the loop ran all max_iters
\* passes and its final pass still lowered the threshold; there is no warning
\* when the threshold stabilised, and the last computed threshold is returned.
C9_WarningIffNotStabilised ==
    pc = "done"
    => /\ warned = (iters = max_iters /\ FinalPassLowered)
       /\ result.detection_threshold = history[Len(history)]

\* ------------------------------------------------ properties: fromHighest

\* the samples at which two thresholds are compared
ThresholdIndices == 0..Max(0, Len(responses) - 1)

\* threshold a is below threshold b at some sample
BelowSomewhere(a, b) ==
    \E i \in ThresholdIndices : Lt(LimitAt(a, i), LimitAt(b, i))

\* the total of a threshold over the samples, when every value is a number
ThresholdTotal(lim) ==
    IF lim.kind = "scalar" THEN lim.s[2] * Len(responses)
    ELSE SumValues(lim.a)

AllNumbers(lim) ==
    IF lim.kind = "scalar" THEN IsFinite(lim.s)
    ELSE lim.a # <<>> /\ \A i \in 1..Len(lim.a) : IsFinite(lim.a[i])

\* both candidates were computed on the same signal, window and max_iters
SameArguments ==
    /\ poisson.name = "Poisson"
    /\ gaussian.name = "Gaussian"
    /\ poisson.params.window = window_size
    /\ gaussian.params.window = window_size
    /\ poisson.params.iters < Max(1, max_iters)
    /\ gaussian.params.iters < Max(1, max_iters)

\* C11 as stated: fromHighest returns one of the two candidate limits, its
\* detection threshold is at no sample below the threshold of either
\* candidate, and on equal thresholds the Poisson limit is returned.
C11_HighestNeverBelow ==
    pc = "returned" =>
        /\ SameArguments
        /\ result \in {poisson, gaussian}
        /\ ~BelowSomewhere(result.detection_threshold, poisson.detection_threshold)
        /\ ~BelowSomewhere(result.detection_threshold, gaussian.detection_threshold)
        /\ poisson.detection_threshold = gaussian.detection_threshold
            => result = poisson

\* C11 amended: fromHighest returns the Gaussian limit exactly when the mean
\* over the samples of its detection threshold is strictly greater than the
\* mean of the Poisson threshold, and the Poisson limit otherwise (also on
\* equal means and when a mean is NaN); without a window the returned
\* threshold is then not below the threshold of either candidate.
C11_HighestByMean ==
    pc = "returned" =>
        /\ SameArguments
        /\ result \in {poisson, gaussian}
        /\ result = gaussian /\ gaussian # poisson =>
            /\ AllNumbers(gaussian.detection_threshold)
            /\ AllNumbers(poisson.detection_threshold)
            /\ ThresholdTotal(gaussian.detection_threshold)
                > ThresholdTotal(poisson.detection_threshold)
        /\ result = poisson =>
            \/ ~AllNumbers(gaussian.detection_threshold)
            \/ ~AllNumbers(poisson.detection_threshold)
            \/ ThresholdTotal(gaussian.detection_threshold)
                <= ThresholdTotal(poisson.detection_threshold)
        /\ window_size = 0 =>
            /\ ~BelowSomewhere(result.detection_threshold, poisson.detection_threshold)
            /\ ~BelowSomewhere(result.detection_threshold, gaussian.detection_threshold)

\* windowed: the Gaussian limit is returned for its higher mean although the
\* Poisson threshold is higher at some sample
C11_Witness ==
    /\ pc = "returned"
    /\ window_size > 0
    /\ result = gaussian
    /\ BelowSomewhere(gaussian.detection_threshold, poisson.detection_threshold)

\* the two candidates have equal mean thresholds and the Poisson limit is
\* returned
C11_WitnessTie ==
    /\ pc = "returned"
    /\ AllNumbers(gaussian.detection_threshold)
    /\ AllNumbers(poisson.detection_threshold)
    /\ ThresholdTotal(gaussian.detection_threshold)
        = ThresholdTotal(poisson.detection_threshold)
    /\ result = poisson

\* ----------------------------------------- properties: combine_detections

Combined == combine_outcome = "returned"

CombinedIndices == 1..Len(all_regions)

\* the combined regions whose bounds contain region k of a channel
AttributedTo(name, k) ==
    {j \in CombinedIndices :
        /\ all_regions[j][1] <= regions_dict[name][k][1]
        /\ regions_dict[name][k][2] <= all_regions[j][2]}

\* the total of a sequence of sums
Total(a) == RangeSum(a, 0, Len(a))

\* two regions share a sample
Overlap(r1, r2) == r1[1] < r2[2] /\ r2[1] < r1[2]

\* C15: every per-channel region is attributed to exactly one combined
\* region, the one whose bounds contain it, so for each channel the combined
\* sums add up to the channel's input sums: nothing is lost or counted twice,
\* also when regions of different channels overlap, nest or touch.
C15_SumsConserved ==
    Combined =>
        \A name \in DOMAIN sums_dict :
            /\ \A k \in 1..Len(regions_dict[name]) :
                    Cardinality(AttributedTo(name, k)) = 1
            /\ Len(combined[name]) = Len(all_regions)
            /\ Total(combined[name]) = Total(sums_dict[name])

\* regions of two channels overlap without one containing the other, and
\* another pair only touches
C15_Witness ==
    /\ Combined
    /\ DOMAIN sums_dict = {"Ag", "Au"}
    /\ \E k \in 1..Len(regions_dict["Ag"]), m \in 1..Len(regions_dict["Au"]) :
        LET r1 == regions_dict["Ag"][k]
            r2 == regions_dict["Au"][m]
        IN  /\ Overlap(r1, r2)
            /\ r1[1] < r2[1]
            /\ r1[2] < r2[2]
            /\ sums_dict["Ag"][k] > 0
            /\ sums_dict["Au"][m] > 0

\* a region of one channel ends where a region of the other starts
C15_WitnessTouch ==
    /\ Combined
    /\ DOMAIN sums_dict = {"Ag", "Au"}
    /\ \E k \in 1..Len(regions_dict["Ag"]), m \in 1..Len(regions_dict["Au"]) :
        /\ regions_dict["Ag"][k][2] = regions_dict["Au"][m][1]
        /\ Len(all_regions) = 1

\* the largest label of a label array, 0 for none
RECURSIVE MaxLabel(_)
MaxLabel(labs) ==
    IF labs = <<>> THEN 0 ELSE Max(Head(labs), MaxLabel(Tail(labs)))

\* the samples of the combined label array labelled j
Labelled(j) == {i \in 1..Len(any_label) : any_label[i] = j}

\* C16: the combined label array is nonzero exactly where some channel's
\* label is nonzero, per-channel regions that overlap lie in one combined
\* region, the structured sums have one row per combined region, as many as
\* the largest combined label, and row i belongs to the region labelled i + 1.
C16_CombinedLabels ==
    Combined =>
        /\ \A name \in DOMAIN labels_dict : Len(any_label) = Len(labels_dict[name])
        /\ \A i \in 1..Len(any_label) :
            (any_label[i] # 0) = (\E name \in DOMAIN labels_dict : labels_dict[name][i] # 0)
        /\ \A n1 \in DOMAIN regions_dict, n2 \in DOMAIN regions_dict :
            \A k \in 1..Len(regions_dict[n1]), m \in 1..Len(regions_dict[n2]) :
                Overlap(regions_dict[n1][k], regions_dict[n2][m])
                => any_label[regions_dict[n1][k][1] + 1]
                    = any_label[regions_dict[n2][m][1] + 1]
        /\ Len(all_regions) = MaxLabel(any_label)
        /\ \A name \in DOMAIN combined : Len(combined[name]) = Len(all_regions)
        /\ \A j \in CombinedIndices :
            /\ Labelled(j) = {i + 1 : i \in all_regions[j][1]..(all_regions[j][2] - 1)}
            /\ \A name \in DOMAIN combined :
                combined[name][j] =
                    Total([k \in 1..Len(regions_dict[name]) |->
                        IF labels_dict[name] # <<>>
                            /\ any_label[regions_dict[name][k][1] + 1] = j
                        THEN sums_dict[name][k] ELSE 0])

\* two combined regions, the first merged from overlapping regions of the
\* two channels
C16_Witness ==
    /\ Combined
    /\ DOMAIN sums_dict = {"Ag", "Au"}
    /\ Len(all_regions) = 2
    /\ \E k \in 1..Len(regions_dict["Ag"]), m \in 1..Len(regions_dict["Au"]) :
        /\ Overlap(regions_dict["Ag"][k], regions_dict["Au"][m])
        /\ regions_dict["Ag"][k] # regions_dict["Au"][m]
        /\ any_label[regions_dict["Ag"][k][1] + 1] = 1

\* ------------------------------------------- properties: failure modes

\* the call has ended, with a limit or with an exception
Ended == pc \in {"done", "returned", "ValueError", "ZeroDivisionError"}

\* C12: threshold estimation on a zero-length signal ends with ValueError and
\* returns no limit, through fromMethodString with any method string (and so
\* through fromBest, fromHighest and the three estimators it calls).
C12_EmptySignalError ==
    Ended /\ responses = <<>> => pc = "ValueError" /\ result = NoLimit

\* the method names fromMethodString documents, and the name of the
\* CompoundPoisson model written out
RecognisedMethods ==
    {Automatic, Best, Highest, Compound, Gaussian, Poisson,
     Compound \o <<" ">> \o Poisson}

\* the formula names fromPoisson documents, and Stapleton's written out
RecognisedFormulas ==
    {Currie, FormulaA, FormulaC, Stapleton,
     Stapleton \o <<" ", "a", "p", "p", "r", "o", "x", "i", "m", "a", "t", "i", "o", "n">>}

\* C13: a method string that is not a recognised model name, or a formula
\* string handed to fromPoisson that is not a recognised formula name, ends
\* with ValueError and no limit: no unrecognised name is mapped to a model or
\* a formula.
C13_UnknownNamesRejected ==
    Ended /\ method_string # None =>
        /\ lower(method_string) \notin RecognisedMethods
            => pc = "ValueError" /\ result = NoLimit
        /\ (lower(method_string) \in {Poisson, Highest}
                /\ lower(kws.formula) \notin RecognisedFormulas)
            => pc = "ValueError" /\ result = NoLimit

\* ------------------------------------------- properties: returned limit

\* the limit carries the mean, the threshold and the name of the estimator
\* that made it, with its alpha and the passes after the first as iters
CarriesEstimate ==
    /\ result.mean_signal = mu
    /\ result.detection_threshold = threshold
    /\ result.name = method
    /\ result.params.alpha = alpha
    /\ result.params.iters = Len(history) - 1

\* C14 as stated: every limit returned by the three estimators carries mean
\* background, detection threshold, model name and a params dict with the
\* alpha used, the window size used and the iteration count.
C14_ParamsComplete ==
    entry = "direct" /\ pc = "done" =>
        /\ CarriesEstimate
        /\ {"alpha", "window", "iters"} \subseteq DOMAIN result.params
        /\ result.params.window = window_size

\* C14 amended: every limit returned by the three estimators carries mean
\* background, detection threshold and model name; the params dict of a
\* Gaussian or Poisson limit holds exactly alpha, window and iters, that of a
\* CompoundPoisson limit (which has no window) exactly alpha and iters; iters
\* is the number of passes made after the first.
C14_ParamsByModel ==
    entry = "direct" /\ pc = "done" =>
        /\ CarriesEstimate
        /\ result.name \in {"Gaussian", "Poisson"} =>
            /\ DOMAIN result.params = {"alpha", "window", "iters"}
            /\ result.params.window = window_size
        /\ result.name = "CompoundPoisson" =>
            DOMAIN result.params = {"alpha", "iters"}
        /\ result.name \in {"Gaussian", "Poisson", "CompoundPoisson"}

\* a CompoundPoisson limit returned after two passes
C14_Witness ==
    /\ entry = "direct"
    /\ pc = "done"
    /\ result.name = "CompoundPoisson"
    /\ Len(history) = 2
    /\ result.params.iters = 1

\* ------------------------------------------- properties: model selection

PositiveSamples == {i \in 1..Len(responses) : responses[i] > 0}

LowSamples == {i \in PositiveSamples : responses[i] <= 5 * Scale}

\* the low samples within 0.05 of an integer
NearIntegerSamples ==
    {i \in LowSamples :
        \E k \in 0..5 : /\ responses[i] - k * Scale <= (5 * Scale) \div 100
                        /\ k * Scale - responses[i] <= (5 * Scale) \div 100}

\* C10: fromBest looks at the strictly positive samples only: Gaussian when
\* fewer than 5% of them are <= 5; otherwise Poisson when at least 75% of the
\* low positive samples lie within 0.05 of an integer; otherwise
\* CompoundPoisson. Exactly one model is chosen for a signal with a positive
\* sample.
C10_BestSelection ==
    entry = "fromBest" /\ pc # "best" /\ PositiveSamples # {}
    => /\ pc # "ZeroDivisionError"
       /\ method =
            IF 100 * Cardinality(LowSamples) < 5 * Cardinality(PositiveSamples)
            THEN "Gaussian"
            ELSE IF 100 * Cardinality(NearIntegerSamples)
                        >= 75 * Cardinality(LowSamples)
            THEN "Poisson"
            ELSE "CompoundPoisson"

\* ------------------------------------------- properties: result inputs

\* the input is in the inputs of the result
Given(k) == res.inputs[k] # Absent

\* the inputs either way to a mass needs
MassInputsGiven ==
    \/ /\ Given("dwelltime")
       /\ Given("efficiency")
       /\ Given("uptake")
       /\ Given("response")
       /\ Given("mass_fraction")
    \/ /\ Given("mass_response")
       /\ Given("mass_fraction")

CellInputsGiven == Given("cell_diameter") /\ Given("molar_mass")

ConcentrationInputsGiven == Given("efficiency") /\ Given("uptake") /\ Given("time")

\* the operations that return a derived quantity, and the calibration calls
Conversions ==
    {"asMass", "asSize", "asCellConcentration", "convertTo", "ionic_background",
     "mass_concentration", "number_concentration"}

Calibrations == {"fromNebulisationEfficiency", "fromMassResponse"}

\* the last operation derives a quantity of a result
Derived == res.exists /\ op \in Conversions \cup Calibrations /\ key # "volume"

\* every input the quantity of the last conversion requires is given
RequiredGiven ==
    CASE op = "asMass" \/ (op = "convertTo" /\ key = "mass") -> MassInputsGiven
      [] op = "asSize" \/ (op = "convertTo" /\ key = "size") ->
            MassInputsGiven /\ Given("density")
      [] op = "asCellConcentration" \/ (op = "convertTo" /\ key = "cell_concentration") ->
            MassInputsGiven /\ CellInputsGiven
      [] op = "convertTo" /\ key = "signal" -> TRUE
      [] op = "ionic_background" -> Given("response")
      [] op = "mass_concentration" -> "mass" \in res.keys /\ ConcentrationInputsGiven
      [] op = "number_concentration" -> ConcentrationInputsGiven
      [] OTHER -> TRUE

\* every mass input the last calibration call requires is given
CalibrationInputsGiven ==
    IF op = "fromNebulisationEfficiency"
    THEN /\ Given("dwelltime")
         /\ Given("efficiency")
         /\ Given("uptake")
         /\ Given("response")
         /\ Given("mass_fraction")
    ELSE Given("mass_response") /\ Given("mass_fraction")

\* a conversion returns None exactly when one of its inputs is missing
ConversionOptional ==
    (Derived /\ op \in Conversions) =>
        /\ returned.outcome = "returned"
        /\ (returned.kind = "None") <=> ~RequiredGiven

\* C17 as stated: every derived quantity of a Result is computed only when all
\* of its required inputs are present, and with a missing input it is
\* unavailable (None) and no error is raised, by the conversions, the
\* concentration properties, fromNebulisationEfficiency and fromMassResponse.
C17_MissingNeverRaises ==
    /\ ConversionOptional
    /\ (Derived /\ op \in Calibrations) =>
        /\ returned.outcome = "returned"
        /\ "mass" \in res.keys => MassInputsGiven

\* C17: asMass, asSize, asCellConcentration, convertTo and the concentration
\* properties return None, without raising, exactly when a required input is
\* missing; fromNebulisationEfficiency and fromMassResponse raise ValueError
\* exactly when one of their required mass inputs is missing, and otherwise
\* they set the masses, the sizes only when the density is given and the cell
\* concentrations only when cell_diameter and molar_mass are given.
C17_MissingInputs ==
    /\ ConversionOptional
    /\ (Derived /\ op \in Calibrations) =>
        /\ returned.outcome \in {"returned", "ValueError"}
        /\ (returned.outcome = "ValueError") <=> ~CalibrationInputsGiven
        /\ (returned.outcome = "returned") =>
            /\ "mass" \in res.keys
            /\ ("size" \in res.keys) <=> Given("density")
            /\ ("cell_concentration" \in res.keys) <=> CellInputsGiven

\* a size was asked for with the mass inputs but no density: None
C17_Witness ==
    /\ op = "asSize"
    /\ MassInputsGiven
    /\ ~Given("density")
    /\ returned = ReturnNone

\* a calibration without its mass inputs raised
C17_WitnessRaise ==
    /\ op = "fromMassResponse"
    /\ ~Given("mass_response")
    /\ returned.outcome = "ValueError"

\* a calibration without the density set the masses and no sizes
C17_WitnessNoSize ==
    /\ op = "fromNebulisationEfficiency"
    /\ returned.outcome = "returned"
    /\ args.inputs_kws["density"] = NoneInput
    /\ "mass" \in res.keys
    /\ "size" \notin res.keys

\* ------------------------------------------ properties: result failures

\* the step is a construction or a calibration call that raised
FailedCall ==
    /\ op' \in {"__init__", "fromNebulisationEfficiency", "fromMassResponse"}
    /\ returned'.outcome = "ValueError"

C18_WitnessConstruction ==
    /\ op = "__init__"
    /\ returned.outcome = "ValueError"
    /\ args.detections = <<>>
    /\ ~res.exists

\* ------------------------------------------- properties: mass response

Abs(x) == IF x < 0 THEN -x ELSE x

\* mass is signal * mass_response / mass_fraction, up to the rounding of the
\* factor and of the product
ByMassResponse(mass, signal, mass_response, mass_fraction) ==
    Abs(mass - (signal * mass_response) \div mass_fraction) <= signal \div Scale + 1

\* the mass of the limit of detection is to the limit of detection what the
\* mass of the detection is to its signal, up to rounding
SameMassScale(lod_mass, lod, mass, signal) ==
    Abs(lod_mass * signal - lod * mass) <= lod * (signal \div Scale + 1) + signal

\* C19: under mass-response calibration the mass of every detection is
\* signal * mass_response / mass_fraction and the limit of detection is
\* converted to mass with the same factor, so that the detections and the
\* limit of detection of one result are on the same mass scale.
C19_SameMassScale ==
    /\ (op = "fromMassResponse" /\ returned.outcome = "returned") =>
        \A i \in 1..Len(res.detections["signal"]) :
            ByMassResponse(res.detections["mass"][i], res.detections["signal"][i],
                           res.inputs["mass_response"], res.inputs["mass_fraction"])
    /\ (op = "asMass" /\ returned.kind = "float" /\ "mass" \in res.keys) =>
        \A i \in 1..Len(res.detections["signal"]) :
            SameMassScale(returned.f, args.lod, res.detections["mass"][i],
                          res.detections["signal"][i])
    /\ widget.updated =>
        /\ \A i \in 1..Len(args.detections) :
            ByMassResponse(widget.masses[i], args.detections[i],
                           args.inputs_kws["mass_response"],
                           args.inputs_kws["mass_fraction"])
        /\ ByMassResponse(widget.background_lod_mass, args.lod,
                          args.inputs_kws["mass_response"],
                          args.inputs_kws["mass_fraction"])

\* the part of C19 that is about SPCalResult.fromMassResponse alone
C19_MassesByResponse ==
    (op = "fromMassResponse" /\ returned.outcome = "returned") =>
        \A i \in 1..Len(res.detections["signal"]) :
            ByMassResponse(res.detections["mass"][i], res.detections["signal"][i],
                           res.inputs["mass_response"], res.inputs["mass_fraction"])

\* the part of C19 that is about the ResultsWidget of nanopart
C19_WidgetSameScale ==
    widget.updated =>
        ByMassResponse(widget.background_lod_mass, args.lod,
                       args.inputs_kws["mass_response"],
                       args.inputs_kws["mass_fraction"])

\* the part of C19 that is about asMass after a calibration
C19_ResultSameScale ==
    (op = "asMass" /\ returned.kind = "float" /\ "mass" \in res.keys) =>
        \A i \in 1..Len(res.detections["signal"]) :
            SameMassScale(returned.f, args.lod, res.detections["mass"][i],
                          res.detections["signal"][i])

\* ------------------------------------------------ properties: clusters

\* the events of cluster c
Members(c) == {i \in 1..Len(T) : T[i] = c}

\* the sum of feature f over the events of cluster c that come after event i
RECURSIVE MemberSumFrom(_, _, _)
MemberSumFrom(c, f, i) ==
    IF i > Len(T) THEN 0
    ELSE (IF T[i] = c THEN X[i][f] ELSE 0) + MemberSumFrom(c, f, i + 1)

\* the positions of the returned clusters
Positions == 1..Len(counts)

\* the returned clusters are every cluster index up to the largest, once each
IsPermutation ==
    /\ Len(order_idx) = Len(counts)
    /\ \A i \in 1..Len(T) : \E j \in Positions : order_idx[j] = T[i]
    /\ \A j, k \in Positions : j # k => order_idx[j] # order_idx[k]

\* largest first
Descending == \A j, k \in Positions : j < k => counts[j] >= counts[k]

\* clusters with equal counts in the order of their indices
TiesKeepIndexOrder ==
    \A j, k \in Positions :
        (j < k /\ counts[j] = counts[k]) => order_idx[j] < order_idx[k]

\* means, stds and counts at one position describe the same cluster
SameOrder ==
    /\ Len(means) = Len(counts)
    /\ Len(stds) = Len(counts)
    /\ \A j \in Positions :
        /\ counts[j] = Cardinality(Members(order_idx[j]))
        /\ \A f \in 1..(IF X = <<>> THEN 1 ELSE Len(X[1])) :
            IF counts[j] = 0
            THEN means[j][f] = NaN /\ stds[j][f] = NaN
            ELSE /\ means[j][f] = Fin(MemberSumFrom(order_idx[j], f, 1) \div counts[j])
                 /\ IsFinite(stds[j][f])
                 /\ (\A i \in Members(order_idx[j]) : X[i][f] = means[j][f][2])
                        => stds[j][f] = Fin(0)

CountsAddUp == Total(counts) = Len(T)

\* C20 as stated: cluster_information returns the clusters largest first,
\* clusters of equal member count in their original index order (lower index
\* first), means, stds and counts permuted alike, the counts adding up to the
\* number of events.
C20_SortedStable ==
    cluster_outcome = "returned" =>
        /\ IsPermutation
        /\ Descending
        /\ TiesKeepIndexOrder
        /\ SameOrder
        /\ CountsAddUp

\* C20: cluster_information returns the clusters ordered by member count,
\* largest first, with no promise for the order of clusters of equal count;
\* means, stds and counts are permuted by the same order and the counts add
\* up to the number of events.
C20_SortedByCount ==
    cluster_outcome = "returned" =>
        /\ IsPermutation
        /\ Descending
        /\ SameOrder
        /\ CountsAddUp

\* three clusters of different sizes came back out of their index order
C20_Witness ==
    /\ cluster_outcome = "returned"
    /\ Len(counts) = 3
    /\ counts[1] > counts[2]
    /\ order_idx[1] > order_idx[2]
    /\ counts[2] > 0

\* two clusters of equal size came back with the higher index first
C20_WitnessTie ==
    /\ cluster_outcome = "returned"
    /\ \E j \in Positions : \E k \in Positions :
        /\ j < k
        /\ counts[j] = counts[k]
        /\ counts[j] > 0
        /\ order_idx[j] > order_idx[k]

\* ------------------------------------- properties: prepared fractions

\* the value of channel j of event i before the division
Original(i, j) == data[data_names[j]][i]

Channels == 1..Len(data_names)

Events == 1..Len(data[data_names[1]])

\* the total of event i over its channels
RECURSIVE ChannelTotalFrom(_, _)
ChannelTotalFrom(i, j) ==
    IF j > Len(data_names) THEN 0 ELSE Original(i, j) + ChannelTotalFrom(i, j + 1)

ChannelTotal(i) == ChannelTotalFrom(i, 1)

\* the fractions of event i add up to 1, less the rounding of every division
SumsToOne(i) ==
    LET fractions == RangeSum(prepared[i], 0, Len(prepared[i]))
    IN  fractions <= Scale /\ fractions > Scale - Len(data_names)

\* C21: prepare_data_for_clustering returns an N x M matrix, one column per
\* channel in key order, in which every row with a channel total above 0 is
\* divided by that total, so that it sums to 1 and keeps the ratios between
\* its channels, and every row with a total of 0 keeps its values.
C21_RowsNormalised ==
    prepare_outcome = "returned" =>
        /\ Len(prepared) = Cardinality(Events)
        /\ \A i \in Events :
            /\ Len(prepared[i]) = Len(data_names)
            /\ IF ChannelTotal(i) > 0
               THEN /\ \A j \in Channels :
                        prepared[i][j] = (Original(i, j) * Scale) \div ChannelTotal(i)
                    /\ SumsToOne(i)
                    /\ \A j, k \in Channels :
                        Abs(prepared[i][j] * Original(i, k)
                            - prepared[i][k] * Original(i, j))
                                <= Original(i, j) + Original(i, k)
               ELSE \A j \in Channels : prepared[i][j] = Original(i, j)

\* an event with unequal channels was divided, and an event without signal
\* was left as it was
C21_Witness ==
    /\ prepare_outcome = "returned"
    /\ Len(data_names) = 2
    /\ \E i \in Events :
        /\ Original(i, 1) = Scale
        /\ Original(i, 2) = 3 * Scale
        /\ prepared[i][1] < prepared[i][2]
        /\ prepared[i][1] > 0
    /\ \E i \in Events : ChannelTotal(i) = 0 /\ prepared[i] = <<0, 0>>

\* ------------------------------------------ properties: moving windows

\* the positions of the window that starts at position i
WindowAt(i) == i..(i + moving_n - 1)

\* the sum of the samples, and of their squares, of the window at i
WindowSum(i) == RangeSum(moving_x, i - 1, i - 1 + moving_n)

WindowSquares(i) ==
    RangeSum([p \in 1..Len(moving_x) |-> moving_x[p] * moving_x[p]], i - 1, i - 1 + moving_n)

\* the k-th smallest sample of the window at i
OrderStatistic(i, k) ==
    CHOOSE v \in {moving_x[p] : p \in WindowAt(i)} :
        /\ Cardinality({p \in WindowAt(i) : moving_x[p] < v}) < k
        /\ Cardinality({p \in WindowAt(i) : moving_x[p] <= v}) >= k

\* twice the median of the window at i
TwiceMedian(i) ==
    OrderStatistic(i, (moving_n + 1) \div 2) + OrderStatistic(i, moving_n \div 2 + 1)

\* the ratio q is a / b
IsRatio(q, a, b) == q[1] * b = a * q[2] /\ q[2] # 0

\* the sorted window of moving_median is sorted and holds the samples of the
\* window at start
SortedWindowHolds ==
    /\ Len(sort) = moving_n
    /\ \A j \in 1..(Len(sort) - 1) : sort[j] <= sort[j + 1]
    /\ \A v \in MovingValues :
        Cardinality({j \in 1..Len(sort) : sort[j] = v})
            = Cardinality({p \in WindowAt(start + 1) : moving_x[p] = v})

\* C22: for a window n with 1 <= n <= x.size the portable moving_mean,
\* moving_median and moving_std return x.size - n + 1 values, the value at i
\* being the mean, the median (the average of the two middle values for even
\* n) and the population standard deviation of x[i .. i+n-1]; the sorted
\* window of moving_median holds exactly the samples of the current window.
C22_MovingWindows ==
    /\ moving_call \in {"moving_mean", "moving_median", "moving_std"} =>
        Len(moving_r) = Len(moving_x) - moving_n + 1
    /\ moving_call = "moving_mean" =>
        \A i \in 1..Len(moving_r) : IsRatio(moving_r[i], WindowSum(i), moving_n)
    /\ moving_call = "moving_median" =>
        \A i \in 1..Len(moving_r) : IsRatio(moving_r[i], TwiceMedian(i), 2)
    /\ moving_call = "moving_std" =>
        \A i \in 1..Len(moving_r) :
            IsRatio(moving_r[i],
                    moving_n * WindowSquares(i) - WindowSum(i) * WindowSum(i),
                    moving_n * moving_n)
    /\ moving_call \in {"moving_median loop", "moving_median"} => SortedWindowHolds

\* moving_median of an even window moved twice and returned the average of
\* two different middle values
C22_Witness ==
    /\ moving_call = "moving_median"
    /\ moving_n = 2
    /\ start = 2
    /\ moving_r[1] # moving_r[3]
    /\ \E i \in 1..Len(moving_r) : moving_r[i][1] % 2 = 1

\* moving_std returned a deviation above 0 and a deviation of 0
C22_WitnessStd ==
    /\ moving_call = "moving_std"
    /\ moving_n = 3
    /\ Len(moving_r) = 2
    /\ moving_r[1][1] > 0
    /\ moving_r[2][1] = 0

\* ---------------------------------------- properties: windowed limits

\* the sample that index i of the reflected signal reads, for one reflection
Mirrored(i) ==
    IF Len(responses) = 1 THEN 0
    ELSE IF i < 0 THEN -i
    ELSE IF i >= Len(responses) THEN 2 * (Len(responses) - 1) - i
    ELSE i

\* the indices of the window around sample k: window_size // 2 on each side,
\* one less before the sample for an even window
AroundSample(k) ==
    (k - window_size \div 2 + (IF window_size % 2 = 0 THEN 1 ELSE 0))
        ..(k + window_size \div 2)

\* the background samples of the window around sample k, in the last pass:
\* those below the threshold the pass started with, NaN for the others
WindowBackground(k) ==
    LET first == k - window_size \div 2 + (IF window_size % 2 = 0 THEN 1 ELSE 0)
    IN  [j \in 1..window_size |->
            LET at == Mirrored(first + j - 1)
            IN  IF Lt(Fin(responses[at + 1]), LimitAt(prev_threshold, at))
                THEN Fin(responses[at + 1]) ELSE NaN]

\* the threshold the estimator puts on a window
WindowThreshold(k) ==
    IF method = "Gaussian"
    THEN PlusScaled(NanMean(WindowBackground(k)), NanStd(WindowBackground(k)),
                    InvCdf(alpha))
    ELSE CeilSum(NanMean(WindowBackground(k)),
                 PoissonCritical(NanMean(WindowBackground(k)), alpha))

\* C23: with window_size > 0, fromGaussian and fromPoisson return a mean
\* background and a detection threshold with exactly one value per input
\* sample, for odd and even window sizes, each computed from the
\* reflect-padded window around its sample.
C23_PerSampleArrays ==
    (entry = "direct" /\ pc = "done" /\ window_size > 0
            /\ method \in {"Gaussian", "Poisson"}) =>
        /\ result.mean_signal.kind = "array"
        /\ result.detection_threshold.kind = "array"
        /\ Len(result.mean_signal.a) = Len(responses)
        /\ Len(result.detection_threshold.a) = Len(responses)
        /\ \A k \in 0..(Len(responses) - 1) :
            /\ k \in AroundSample(k)
            /\ result.mean_signal.a[k + 1] = NanMean(WindowBackground(k))
            /\ result.detection_threshold.a[k + 1] = WindowThreshold(k)

\* an even window over three samples gave a background that differs from
\* sample to sample
C23_Witness ==
    /\ entry = "direct"
    /\ pc = "done"
    /\ window_size = 2
    /\ method = "Gaussian"
    /\ Len(responses) = 3
    /\ Len(result.mean_signal.a) = 3
    /\ result.mean_signal.a[1] # result.mean_signal.a[3]
    /\ IsFinite(result.mean_signal.a[1])
    /\ IsFinite(result.mean_signal.a[3])

\* an odd window, by fromPoisson
C23_WitnessOdd ==
    /\ entry = "direct"
    /\ pc = "done"
    /\ window_size = 3
    /\ method = "Poisson"
    /\ Len(responses) = 3
    /\ Len(result.detection_threshold.a) = 3
    /\ result.detection_threshold.a[1] # result.detection_threshold.a[2]

\* ---------------------------------------------------------------------------
\* C24: on a background of Poisson counts of mean lam the automatic selection
\* takes the Gaussian estimator when lam is 50 or more and the Poisson estimator
\* when lam is below 50. The mean of a sample of PoissonBackgrounds is its lam.
SampleTotal(resp) == SumSeq(resp)

C24_SelectsByMean ==
    (entry = "fromBest" /\ pc \notin {"best", "ZeroDivisionError"}
        /\ responses \in PoissonBackgrounds)
    => method = (IF SampleTotal(responses) >= 50 * Scale * Len(responses)
                 THEN "Gaussian" ELSE "Poisson")

\* ---------------------------------------------------------------------------
\* C25: for a non-empty signal of finite values and any max_iters, each pass of
\* the refinement loop of fromGaussian and fromPoisson finds at least one sample
\* strictly below the current threshold, and the mean background and the
\* detection threshold returned are finite, never NaN; a constant signal
\* included.
EveryValueFinite(lim) ==
    IF lim.kind = "scalar" THEN IsFinite(lim.s)
    ELSE \A i \in 1..Len(lim.a) : IsFinite(lim.a[i])

RefinedDirectly ==
    /\ entry = "direct"
    /\ method \in {"Gaussian", "Poisson"}
    /\ Len(responses) > 0

C25_BackgroundNeverEmpty ==
    /\ (RefinedDirectly /\ pc = "loop"
            /\ LoopContinues(prev_threshold, threshold, Len(responses), iters, max_iters))
        => Background(responses, threshold) # <<>>
    /\ (RefinedDirectly /\ pc = "done")
        => /\ EveryValueFinite(result.mean_signal)
           /\ EveryValueFinite(result.detection_threshold)

\* ---------------------------------------------------------------------------
\* C26: after any sequence of successful calibrations interleaved with
\* additions to and removals from the inputs, every derived array present in
\* detections agrees with the current mass array: size, when present, is
\* particle_size of the current masses, and cell_concentration, when present,
\* is cell_concentration of the current masses.
SizesOf(masses) ==
    [i \in 1..Len(masses) |-> particle_size(masses[i], InputValue("density"))]

CellConcentrationsOf(masses) ==
    [i \in 1..Len(masses) |->
        cell_concentration(masses[i], InputValue("cell_diameter"), InputValue("molar_mass"))]

C26_DerivedFollowMass ==
    (res.exists /\ "mass" \in res.keys) =>
        /\ "size" \in res.keys =>
            res.detections["size"] = SizesOf(res.detections["mass"])
        /\ "cell_concentration" \in res.keys =>
            res.detections["cell_concentration"] = CellConcentrationsOf(res.detections["mass"])

\* ---------------------------------------------------------------------------
\* C27: fromBest returns a limit for every non-empty signal, one without a
\* strictly positive sample and one whose positive samples are all above 5
\* included: on a non-empty signal it never ends in an error.
C27_BestAlwaysReturns ==
    (entry = "fromBest" /\ Len(responses) > 0)
    => pc \notin {"ZeroDivisionError", "ValueError"}

\* ---------------------------------------------------------------------------
\* C28: the legacy nanopart.util.accumulate_detections, also on a signal still
\* above the accumulation limit at its last sample, returns one sum per run
\* that holds a sample above the detection limit (the last sample counted),
\* each the sum of all samples of the run (the last sample included), and
\* labels that are nonzero exactly on the samples of those runs, also when
\* the open final run is the one discarded.
LegacyReturned == call = "legacy_accumulate_detections" /\ outcome = "returned"

DetectedRuns == {r \in MaximalRuns(y, limit_accumulation) : HoldsDetection(r)}

DetectedRun(k) ==
    CHOOSE r \in DetectedRuns : Cardinality({q \in DetectedRuns : q[1] < r[1]}) = k - 1

C28_LegacyWholeRegions ==
    LegacyReturned
    => /\ Len(sums) = Cardinality(DetectedRuns)
       /\ \A k \in 1..Len(sums) :
            sums[k] = RangeSum(y, DetectedRun(k)[1], DetectedRun(k)[2])
       /\ Len(labels) = Len(y)
       /\ \A i \in 0..(Len(y) - 1) :
            (labels[i + 1] # 0) = (\E r \in DetectedRuns : r[1] <= i /\ i < r[2])

\* ---------------------------------------------------------------------------
\* C30: once reject() has requested the interruption of the running
\* integration thread, that integration never leads to dataImported or to the
\* dialog being accepted, wherever in run() the thread was; the dialog stays
\* open with its controls enabled until the user rejects it again.
C30_InterruptedNeverImports ==
    interruption =>
        /\ tof_emitted = 0
        /\ tof_dialog # "accepted"
        /\ tof_dialog = "open" => tof_controls

\* ---------------------------------------------------------------------------
\* C29: in NuImportDialog, under every interleaving of worker completions,
\* worker failures, accept() and reject(), dataImported is emitted at most once
\* per accept() and only when every entry of the index is accounted for (its
\* file was missing, or its result of this import is in results); no
\* completion of a worker of an import that abort() has run for emits
\* dataImported; and after abort() the controls are enabled.
Emissions == {nu_emitted[i] : i \in 1..Len(nu_emitted)}

AccountedFor(e) ==
    \A k \in 1..Len(nu_index) :
        nu_index[k] = "missing" \/ <<e.import, k>> \in e.results

C29_ImportOnceAndComplete ==
    /\ \A i, j \in 1..Len(nu_emitted) :
            nu_emitted[i].import = nu_emitted[j].import => i = j
    /\ \A e \in Emissions : AccountedFor(e) /\ ~e.cancelled
    /\ (nu_aborted /\ nu_dialog = "open") => nu_controls

====
